---------------------------- MODULE Spec2Model ----------------------------
(***************************************************************************)
(* State-machine model of the strategy execution engine of the Binance     *)
(* futures order bot: the grid run (GridOrder.execute_grid_strategy and    *)
(* _monitor_and_rebalance_grid) and the TWAP run                           *)
(* (TWAPOrder.execute_twap_strategy with its market and limit chunks),     *)
(* each against a venue that accepts, fills and cancels orders; and the    *)
(* single calls beside them: the order monitor, the grid planners, the OCO *)
(* order, the volume-weighted TWAP, the DCA call and the bracket orders.   *)
(*                                                                         *)
(* Floats are fixed-point integers: prices are whole numbers, quantities   *)
(* are counted in 1/QtyScale units, so a profit or a cost is a price times *)
(* a quantity in those units.  Time is a virtual clock that only sleep()   *)
(* advances (TWAP), or the number of polls (grid).                         *)
(***************************************************************************)
EXTENDS Integers, Sequences, FiniteSets, TLC

VARIABLES
    \* ---- the venue (BinanceClient's remote side) ----
    venue,                 \* orders by orderId: Seq of order records
    fills,                 \* number of fills the venue has made
    cancels,               \* number of orders cancelled from outside the run
    \* ---- one grid run ----
    gpc,                   \* position in execute_grid_strategy
    grid_orders,           \* grid_strategy["grid_orders"]
    max_concurrent_orders, \* parameter of execute_grid_strategy
    auto_rebalance,        \* parameter of execute_grid_strategy
    current_price,         \* float(ticker['price'])
    level_idx,             \* index of the placement loop (line 164)
    placed_orders,         \* execution_results["placed_orders"]
    executed_orders,       \* execution_results["executed_orders"]
    total_profit,          \* execution_results["total_profit"]
    open_orders,           \* orderIds returned by the last get_open_orders
    snapshot_size,         \* orders the venue held when it answered that request
    scan_idx,              \* index of the loop over placed_orders (line 236)
    polls,                 \* polls of the monitoring loop started so far
    monitor_error,         \* the monitoring loop ended in its except clause
    \* ---- one TWAP run ----
    tpc,                   \* position in execute_twap_strategy
    twap_args,             \* the arguments of execute_twap_strategy
    chunk_i,               \* i of the chunk loop (line 91), from 0
    clock,                 \* seconds slept since start_time
    ticker_price,          \* current_price of the chunk in hand
    chunk_order_id,        \* order_id of the chunk in hand
    execution_results,     \* chunks, total_executed, total_cost, average_price
    twap_log,              \* the run's venue requests and sleeps, in order
    \* ---- one call of monitor_order_fill ----
    mpc,                   \* position in monitor_order_fill
    timeout,               \* parameter of monitor_order_fill, in seconds
    elapsed,               \* time.time() - start_time
    mon_result,            \* the order_status the call returned
    mon_log,               \* the call's get_order and cancel_order requests
    \* ---- one call of a grid planner ----
    ppc,                   \* position in the planner
    plan_args,             \* the planner called and its arguments
    grid_strategy,         \* grid_strategy["grid_orders"] as returned
    \* ---- one call of place_oco_order ----
    opc,                   \* position in place_oco_order
    oco_args,              \* the arguments of place_oco_order
    oco_requests,          \* the Gateway requests the call made, in order
    oco_response,          \* what the call returned
    \* ---- one call of execute_volume_weighted_twap ----
    volume_profile,        \* parameter of execute_volume_weighted_twap
    \* ---- one call of execute_dca_strategy ----
    dpc,                   \* position in execute_dca_strategy
    dca_args,              \* num_orders and interval_seconds
    dca_i,                 \* i of the order loop (line 286), from 0
    dca_clock,             \* seconds slept since the call started
    dca_log,               \* the attempts: when, and whether an order came back
    \* ---- one call of place_bracket_orders ----
    bpc,                   \* position in place_bracket_orders
    bracket_args,          \* the arguments of place_bracket_orders
    orders                 \* orders: the orderId of each leg placed so far

venueVars == <<venue, fills, cancels>>
gridVars == <<gpc, grid_orders, max_concurrent_orders, auto_rebalance,
              current_price, level_idx, placed_orders, executed_orders,
              total_profit, open_orders, snapshot_size, scan_idx, polls,
              monitor_error>>
twapVars == <<tpc, twap_args, chunk_i, clock, ticker_price, chunk_order_id,
              execution_results, twap_log>>
monVars == <<mpc, timeout, elapsed, mon_result, mon_log>>
planVars == <<ppc, plan_args, grid_strategy>>
ocoVars == <<opc, oco_args, oco_requests, oco_response>>
dcaVars == <<dpc, dca_args, dca_i, dca_clock, dca_log>>
bracketVars == <<bpc, bracket_args, orders>>
\* the single calls: OCO, volume-weighted TWAP, DCA, bracket
callVars == <<ocoVars, volume_profile, dcaVars, bracketVars>>
\* what the grid run and the TWAP run both leave alone
otherVars == <<monVars, planVars, callVars>>
vars == <<venueVars, gridVars, twapVars, otherVars>>

---------------------------------------------------------------------------
(* Bounds of the model *)

\* one unit of quantity is QtyScale fixed-point units
QtyScale == 100
\* polls of the monitoring loop the model follows
MaxPolls == 3
\* fills the venue makes during one run
MaxFills == 3
\* orders cancelled at the venue from outside the run during one run
MaxCancels == 1

\* largest num_chunks of a TWAP run
MaxChunks == 3
\* largest num_orders of a DCA call
MaxDcaOrders == 3

\* time.sleep(30) between two polls
PollInterval == 30
\* monitoring_duration
MonitoringDuration == 3600
\* time.sleep(2): the wait for a limit chunk to fill
FillWait == 2
\* validate_quantity / validate_price upper limit
MaxValue == 1000000

---------------------------------------------------------------------------
(* Validation layer *)

\* OrderValidator.validate_quantity: positive, at most 1,000,000
validate_quantity(q) == q > 0 /\ q <= MaxValue * QtyScale

\* OrderValidator.validate_price: positive, at most 1,000,000
validate_price(p) == p > 0 /\ p <= MaxValue

\* str.upper() of the symbols and times in force the model gives the calls
upper(str) ==
    CASE str = "btcusdt" -> "BTCUSDT"
      [] str = "gtc" -> "GTC"
      [] OTHER -> str

\* SUPPORTED_SYMBOLS, of which the model takes two
SupportedSymbols == {"BTCUSDT", "ETHUSDT"}

\* OrderValidator.validate_symbol: not empty and, in upper case, a
\* supported symbol
validate_symbol(symbol) == symbol # "" /\ upper(symbol) \in SupportedSymbols

\* TIME_IN_FORCE
TimeInForce == {"GTC", "IOC", "FOK"}

\* OrderValidator.validate_time_in_force: not empty and, in upper case, one
\* of TIME_IN_FORCE
validate_time_in_force(tif) == tif # "" /\ upper(tif) \in TimeInForce

---------------------------------------------------------------------------
(* Venue *)

\* The order the venue books for a place_order request.  kind, side, price
\* and quantity are the request's parameters; origin, trigger and level
\* record which step of the run sent it (trigger: the filled order the
\* rebalancer answered, 0 for none).
NewOrder(kind, side, quantity, price, origin, trigger, level) ==
    [kind |-> kind, side |-> side, quantity |-> quantity, price |-> price,
     status |-> "NEW", executedQty |-> 0, avgPrice |-> 0,
     origin |-> origin, trigger |-> trigger, level |-> level]

\* the orderId the venue gives the next accepted order
NextOrderId == Len(venue) + 1

\* get_open_orders: the ids of the orders still open
OpenOrderIds == {id \in 1..Len(venue) : venue[id].status = "NEW"}

\* The venue fills an open order completely at its limit price.
VenueFill(id) ==
    /\ fills < MaxFills
    /\ id \in 1..Len(venue)
    /\ venue[id].status = "NEW"
    /\ venue' = [venue EXCEPT ![id].status = "FILLED",
                              ![id].executedQty = venue[id].quantity,
                              ![id].avgPrice = venue[id].price]
    /\ fills' = fills + 1
    /\ UNCHANGED cancels

\* An open order is cancelled at the venue by someone other than the run
\* (the account's owner, the venue's expiry); nothing of it was filled.
VenueCancel(id) ==
    /\ cancels < MaxCancels
    /\ id \in 1..Len(venue)
    /\ venue[id].status = "NEW"
    /\ venue' = [venue EXCEPT ![id].status = "CANCELED"]
    /\ cancels' = cancels + 1
    /\ UNCHANGED fills

---------------------------------------------------------------------------
(* Grid planner: GridOrder.create_grid_strategy, arithmetic mode *)

create_grid_strategy(lower_price, upper_price, grid_number, total_investment) ==
    LET price_step == (upper_price - lower_price) \div (grid_number - 1)
        grid_prices == [i \in 1..grid_number |-> lower_price + (i - 1) * price_step]
        investment_per_grid == total_investment \div grid_number
    IN  [i \in 1..(grid_number - 1) |->
            LET buy_price == grid_prices[i]
                buy_quantity == (investment_per_grid * QtyScale) \div buy_price
                sell_price == grid_prices[i + 1]
            IN  [level |-> i,
                 buy_price |-> buy_price,
                 buy_quantity |-> buy_quantity,
                 sell_price |-> sell_price,
                 sell_quantity |-> buy_quantity,
                 investment |-> investment_per_grid,
                 potential_profit |-> (sell_price - buy_price) * buy_quantity]]

\* the ladders the grid run is given: Scenario A (95, 100, 105 with 300) and
\* a two-price ladder
Ladders ==
    {create_grid_strategy(95, 105, 3, 300), create_grid_strategy(10, 20, 2, 100)}

\* prices the ticker may report to a grid run: below, on and between the
\* bounds of the levels
GridTickerPrices == {10, 15, 95, 97, 100, 102}

\* values of max_concurrent_orders (5 is the default)
ConcurrentCaps == {1, 2, 5}


---------------------------------------------------------------------------
(* Grid run: GridOrder.execute_grid_strategy *)

\* a placement test that also accepts a current price equal to the buy price
ShouldPlaceBuyInclusive(price, lvl) == price >= lvl.buy_price

\* line 167: a level's buy is placed if the current price is above its buy price
ShouldPlaceBuy(price, lvl) == price > lvl.buy_price

\* line 180: a level's sell is placed if the current price is below its sell price
ShouldPlaceSell(price, lvl) == price < lvl.sell_price

\* line 193: the placement loop stops once this many orders are placed
CapReached(placed, cap) == Len(placed) >= cap

\* an entry of placed_orders (lines 171-177, 184-190)
PlacedEntry(lvl, order_type, order_id, price, quantity) ==
    [grid_level |-> lvl, order_type |-> order_type, order_id |-> order_id,
     price |-> price, quantity |-> quantity]

\* lines 199-205: after the placement loop
AfterPlacement == IF auto_rebalance THEN "monitor" ELSE "done"

\* lines 142-160: read the ticker; a failure leaves through the outer
\* except clause, which re-raises
GetTicker ==
    /\ gpc = "start"
    /\ \/ /\ \E p \in GridTickerPrices : current_price' = p
          /\ gpc' = "place"
       \/ /\ gpc' = "raised"
          /\ UNCHANGED current_price
    /\ UNCHANGED <<twapVars, otherVars>>
    /\ UNCHANGED <<venueVars, grid_orders, max_concurrent_orders, auto_rebalance,
                   level_idx, placed_orders, executed_orders, total_profit,
                   open_orders, snapshot_size, scan_idx, polls, monitor_error>>

\* lines 164-197: one iteration of the placement loop.  place_limit_order
\* raises when validation or the venue request fails; the except clause of
\* the iteration logs it and the loop goes on with the next level, without
\* the cap check of line 193.
PlaceGridLevel ==
    /\ gpc = "place"
    /\ LET lvl == grid_orders[level_idx]
           wantBuy == ShouldPlaceBuy(current_price, lvl)
           wantSell == ShouldPlaceSell(current_price, lvl)
           buyValid == validate_quantity(lvl.buy_quantity) /\ validate_price(lvl.buy_price)
           sellValid == validate_quantity(lvl.sell_quantity) /\ validate_price(lvl.sell_price)
       IN  \E outcome \in {"ok", "buy_fails", "sell_fails"} :
             /\ outcome = "buy_fails" => wantBuy
             /\ outcome = "sell_fails" => wantSell /\ (wantBuy => buyValid)
             /\ outcome = "ok" => (wantBuy => buyValid) /\ (wantSell => sellValid)
             /\ LET buyPlaced == wantBuy /\ outcome # "buy_fails"
                    sellPlaced == wantSell /\ outcome = "ok"
                    buyId == NextOrderId
                    sellId == IF buyPlaced THEN NextOrderId + 1 ELSE NextOrderId
                    buyOrder == NewOrder("LIMIT", "BUY", lvl.buy_quantity, lvl.buy_price,
                                         "initial", 0, lvl.level)
                    sellOrder == NewOrder("LIMIT", "SELL", lvl.sell_quantity, lvl.sell_price,
                                          "initial", 0, lvl.level)
                    newPlaced ==
                        placed_orders
                        \o (IF buyPlaced
                            THEN <<PlacedEntry(lvl.level, "buy", buyId,
                                               lvl.buy_price, lvl.buy_quantity)>>
                            ELSE <<>>)
                        \o (IF sellPlaced
                            THEN <<PlacedEntry(lvl.level, "sell", sellId,
                                               lvl.sell_price, lvl.sell_quantity)>>
                            ELSE <<>>)
                    stop == \/ outcome = "ok" /\ CapReached(newPlaced, max_concurrent_orders)
                            \/ level_idx = Len(grid_orders)
                IN  /\ venue' = venue \o (IF buyPlaced THEN <<buyOrder>> ELSE <<>>)
                                      \o (IF sellPlaced THEN <<sellOrder>> ELSE <<>>)
                    /\ placed_orders' = newPlaced
                    /\ IF stop
                       THEN gpc' = AfterPlacement /\ UNCHANGED level_idx
                       ELSE gpc' = "place" /\ level_idx' = level_idx + 1
    /\ UNCHANGED <<twapVars, otherVars>>
    /\ UNCHANGED <<fills, cancels, grid_orders, max_concurrent_orders, auto_rebalance,
                   current_price, executed_orders, total_profit, open_orders,
                   snapshot_size, scan_idx, polls, monitor_error>>

---------------------------------------------------------------------------
(* Grid rebalancer: GridOrder._monitor_and_rebalance_grid *)

\* a lookup that reads the first ladder entry whatever the filled order's level
PairedPriceOfFirstLevel(ladder, grid_level, order_type) ==
    IF order_type = "buy"
    THEN ladder[1].sell_price
    ELSE ladder[1].buy_price

\* lines 252, 268: the price of the paired order comes from the ladder entry
\* of the filled order's level (grid_orders[grid_level - 1], counted from 0)
PairedPrice(ladder, grid_level, order_type) ==
    IF order_type = "buy"
    THEN ladder[grid_level].sell_price
    ELSE ladder[grid_level].buy_price

\* lines 250, 266: a filled buy is answered by a sell, a filled sell by a buy
PairedSide(order_type) == IF order_type = "buy" THEN "SELL" ELSE "BUY"

\* lines 257-265 and 277-285: the entry of executed_orders for a placed order
\* seen FILLED.  For a buy, profit is the entry's potential_profit; for a
\* sell it is realized_profit, also added to total_profit (line 275).
ExecutedEntry(po, executed_price, executed_quantity, paired_id, paired_price) ==
    [grid_level |-> po.grid_level,
     order_type |-> po.order_type,
     order_id |-> po.order_id,
     price |-> executed_price,
     quantity |-> executed_quantity,
     paired_order_id |-> paired_id,
     paired_price |-> paired_price,
     profit |-> IF po.order_type = "buy"
                THEN (paired_price - executed_price) * executed_quantity
                ELSE (executed_price - paired_price) * executed_quantity]

\* lines 274-275: what a filled placed order adds to total_profit
RealizedProfit(entry) == IF entry.order_type = "sell" THEN entry.profit ELSE 0

\* line 232: the loop runs while less than monitoring_duration has passed.
\* Every poll takes the 30 s sleep and the time of its venue requests, so
\* the window may close after any poll; the model follows MaxPolls polls.
WindowOpen == polls < MaxPolls /\ polls * PollInterval < MonitoringDuration

monitorFrame == <<grid_orders, max_concurrent_orders, auto_rebalance, current_price,
                  level_idx, placed_orders>>

\* lines 232-234: the loop test passes and get_open_orders is asked; its
\* failure ends the monitoring in the except clause of line 290
MonitorPoll ==
    /\ gpc = "monitor"
    /\ WindowOpen
    /\ polls' = polls + 1
    /\ \/ /\ open_orders' = OpenOrderIds
          /\ snapshot_size' = Len(venue)
          /\ scan_idx' = 1
          /\ gpc' = "scan"
          /\ UNCHANGED monitor_error
       \/ /\ monitor_error' = TRUE
          /\ gpc' = "done"
          /\ UNCHANGED <<open_orders, snapshot_size, scan_idx>>
    /\ UNCHANGED <<twapVars, otherVars>>
    /\ UNCHANGED <<venueVars, monitorFrame, executed_orders, total_profit>>

\* a monitoring that cancels what is still open when its window is over
MonitorExpireCancelling ==
    /\ gpc = "monitor"
    /\ polls >= 1
    /\ gpc' = "done"
    /\ venue' = [id \in 1..Len(venue) |->
                    IF venue[id].status = "NEW"
                    THEN [venue[id] EXCEPT !.status = "CANCELED"]
                    ELSE venue[id]]
    /\ UNCHANGED <<twapVars, otherVars>>
    /\ UNCHANGED <<fills, cancels, monitorFrame, executed_orders, total_profit,
                   open_orders, snapshot_size, scan_idx, polls, monitor_error>>

\* line 232: the loop test fails, the window is over
MonitorExpire ==
    /\ gpc = "monitor"
    /\ polls >= 1
    /\ gpc' = "done"
    /\ UNCHANGED <<twapVars, otherVars>>
    /\ UNCHANGED <<venueVars, monitorFrame, executed_orders, total_profit,
                   open_orders, snapshot_size, scan_idx, polls, monitor_error>>

\* line 240: the placed order is among the open orders, nothing to do
MonitorStillOpen ==
    /\ gpc = "scan"
    /\ scan_idx <= Len(placed_orders)
    /\ placed_orders[scan_idx].order_id \in open_orders
    /\ scan_idx' = scan_idx + 1
    /\ UNCHANGED <<twapVars, otherVars>>
    /\ UNCHANGED <<venueVars, monitorFrame, executed_orders, total_profit,
                   open_orders, snapshot_size, polls, monitor_error, gpc>>

\* an except clause of the monitoring that re-raises
MonitorGetOrderFailsRaise ==
    /\ gpc = "scan"
    /\ scan_idx <= Len(placed_orders)
    /\ placed_orders[scan_idx].order_id \notin open_orders
    /\ monitor_error' = TRUE
    /\ gpc' = "raised"
    /\ UNCHANGED <<twapVars, otherVars>>
    /\ UNCHANGED <<venueVars, monitorFrame, executed_orders, total_profit,
                   open_orders, snapshot_size, scan_idx, polls>>

\* line 242: get_order raises; the except clause of line 290 ends the monitoring
MonitorGetOrderFails ==
    /\ gpc = "scan"
    /\ scan_idx <= Len(placed_orders)
    /\ placed_orders[scan_idx].order_id \notin open_orders
    /\ monitor_error' = TRUE
    /\ gpc' = "done"
    /\ UNCHANGED <<twapVars, otherVars>>
    /\ UNCHANGED <<venueVars, monitorFrame, executed_orders, total_profit,
                   open_orders, snapshot_size, scan_idx, polls>>

\* a monitoring that sends a closed, unfilled order again
MonitorNotFilledResubmits ==
    /\ gpc = "scan"
    /\ scan_idx <= Len(placed_orders)
    /\ placed_orders[scan_idx].order_id \notin open_orders
    /\ venue[placed_orders[scan_idx].order_id].status # "FILLED"
    /\ LET po == placed_orders[scan_idx]
       IN  venue' = Append(venue,
                       NewOrder("LIMIT", venue[po.order_id].side, po.quantity,
                                po.price, "rebalance", po.order_id, po.grid_level))
    /\ scan_idx' = scan_idx + 1
    /\ UNCHANGED <<twapVars, otherVars>>
    /\ UNCHANGED <<fills, cancels, monitorFrame, executed_orders, total_profit,
                   open_orders, snapshot_size, polls, monitor_error, gpc>>

\* lines 242-244: the order is not open and its status is not FILLED
MonitorNotFilled ==
    /\ gpc = "scan"
    /\ scan_idx <= Len(placed_orders)
    /\ placed_orders[scan_idx].order_id \notin open_orders
    /\ venue[placed_orders[scan_idx].order_id].status # "FILLED"
    /\ scan_idx' = scan_idx + 1
    /\ UNCHANGED <<twapVars, otherVars>>
    /\ UNCHANGED <<venueVars, monitorFrame, executed_orders, total_profit,
                   open_orders, snapshot_size, polls, monitor_error, gpc>>

\* lines 244-285: the order is not open and its status is FILLED: the paired
\* order is placed, the fill is entered in executed_orders and a filled
\* sell's profit is added to total_profit.  place_limit_order raising ends
\* the monitoring in the except clause of line 290.
MonitorRebalance ==
    /\ gpc = "scan"
    /\ scan_idx <= Len(placed_orders)
    /\ LET po == placed_orders[scan_idx]
           order_status == venue[po.order_id]
           executed_quantity == order_status.executedQty
           executed_price == order_status.avgPrice
           paired_price == PairedPrice(grid_orders, po.grid_level, po.order_type)
           entry == ExecutedEntry(po, executed_price, executed_quantity,
                                  NextOrderId, paired_price)
       IN  /\ po.order_id \notin open_orders
           /\ order_status.status = "FILLED"
           /\ \/ /\ validate_quantity(executed_quantity)
                 /\ validate_price(paired_price)
                 /\ venue' = Append(venue,
                                NewOrder("LIMIT", PairedSide(po.order_type),
                                         executed_quantity, paired_price,
                                         "rebalance", po.order_id, po.grid_level))
                 /\ executed_orders' = Append(executed_orders, entry)
                 /\ total_profit' = total_profit + RealizedProfit(entry)
                 /\ scan_idx' = scan_idx + 1
                 /\ UNCHANGED <<gpc, monitor_error>>
              \/ /\ monitor_error' = TRUE
                 /\ gpc' = "done"
                 /\ UNCHANGED <<venue, executed_orders, total_profit, scan_idx>>
    /\ UNCHANGED <<twapVars, otherVars>>
    /\ UNCHANGED <<fills, cancels, monitorFrame, open_orders, snapshot_size, polls>>

\* line 288: every placed order was looked at; sleep until the next poll
MonitorSleep ==
    /\ gpc = "scan"
    /\ scan_idx > Len(placed_orders)
    /\ gpc' = "monitor"
    /\ UNCHANGED <<twapVars, otherVars>>
    /\ UNCHANGED <<venueVars, monitorFrame, executed_orders, total_profit,
                   open_orders, snapshot_size, scan_idx, polls, monitor_error>>

\* The venue fills or cancels an order of the run while the run goes on.
\* The loop over placed_orders asks only for orders that were closed when
\* get_open_orders answered, so what the venue does during that loop is seen
\* by the run exactly as if it happened in the sleep after it: the venue's
\* steps are taken during the placement and between two polls.
GridRunning == gpc \in {"place", "monitor"}

GridVenueFill ==
    /\ GridRunning
    /\ \E id \in 1..Len(venue) : VenueFill(id)
    /\ UNCHANGED <<gridVars, twapVars, otherVars>>

GridVenueCancel ==
    /\ GridRunning
    /\ \E id \in 1..Len(venue) : VenueCancel(id)
    /\ UNCHANGED <<gridVars, twapVars, otherVars>>

VenueInit == venue = <<>> /\ fills = 0 /\ cancels = 0

\* execution_results as built in lines 152-160, before the ticker is read
GridInit ==
    /\ gpc = "start"
    /\ grid_orders \in Ladders
    /\ max_concurrent_orders \in ConcurrentCaps
    /\ auto_rebalance \in BOOLEAN
    /\ current_price = 0
    /\ level_idx = 1
    /\ placed_orders = <<>>
    /\ executed_orders = <<>>
    /\ total_profit = 0
    /\ open_orders = {}
    /\ snapshot_size = 0
    /\ scan_idx = 1
    /\ polls = 0
    /\ monitor_error = FALSE

\* no TWAP run is going on
TwapIdle ==
    /\ tpc = "idle"
    /\ twap_args = [symbol |-> "BTCUSDT",
                    side |-> "BUY", total_quantity |-> 0, duration_seconds |-> 0,
                    num_chunks |-> 0, use_limit_orders |-> FALSE,
                    randomize_intervals |-> FALSE]
    /\ chunk_i = 0
    /\ clock = 0
    /\ ticker_price = 0
    /\ chunk_order_id = 0
    /\ execution_results = [chunks |-> <<>>, total_executed |-> 0,
                            total_cost |-> 0, average_price |-> 0]
    /\ twap_log = <<>>

\* the order a call of monitor_order_fill is given, as the venue booked it
MonitoredOrder == NewOrder("LIMIT", "BUY", QtyScale, 100, "monitored", 0, 0)

\* no snapshot: nothing was returned, or the request was not answered
NoSnapshot == [MonitoredOrder EXCEPT !.status = "NONE"]

\* no call of monitor_order_fill is going on
MonitorIdle ==
    /\ mpc = "idle"
    /\ timeout = 0
    /\ elapsed = 0
    /\ mon_result = NoSnapshot
    /\ mon_log = <<>>

\* no planner is called
PlannerIdle ==
    /\ ppc = "idle"
    /\ plan_args = [planner |-> "none", grid_type |-> "arithmetic",
                    upper_price |-> 0, lower_price |-> 0, base_price |-> 0,
                    grid_number |-> 0, total_investment |-> 0, multiplier |-> 0]
    /\ grid_strategy = <<>>

\* no call of place_oco_order is going on
OcoIdle ==
    /\ opc = "idle"
    /\ oco_args = [symbol |-> "BTCUSDT", side |-> "BUY", quantity |-> 0, price |-> 0,
                   stop_price |-> 0, stop_limit_price |-> 0,
                   stop_limit_time_in_force |-> "GTC"]
    /\ oco_requests = <<>>
    /\ oco_response = [orderListId |-> 0]

\* no call of execute_volume_weighted_twap is going on
VwIdle == volume_profile = <<>>

\* no call of execute_dca_strategy is going on
DcaIdle ==
    /\ dpc = "idle"
    /\ dca_args = [total_amount |-> 0, num_orders |-> 0, interval_seconds |-> 0]
    /\ dca_i = 0
    /\ dca_clock = 0
    /\ dca_log = <<>>

\* no call of place_bracket_orders is going on
BracketIdle ==
    /\ bpc = "idle"
    /\ bracket_args = [side |-> "BUY", quantity |-> 0, entry_price |-> 0,
                       take_profit_price |-> 0, stop_loss_price |-> 0]
    /\ orders = [entry |-> 0, take_profit |-> 0, stop_loss |-> 0]

\* none of the single calls is going on
CallsIdle == OcoIdle /\ VwIdle /\ DcaIdle /\ BracketIdle

InitGrid ==
    VenueInit /\ GridInit /\ TwapIdle /\ MonitorIdle /\ PlannerIdle /\ CallsIdle

NextGrid ==
    \/ GetTicker
    \/ PlaceGridLevel
    \/ MonitorPoll
    \/ MonitorExpire
    \/ MonitorStillOpen
    \/ MonitorGetOrderFails
    \/ MonitorNotFilled
    \/ MonitorRebalance
    \/ MonitorSleep
    \/ GridVenueFill
    \/ GridVenueCancel

SpecGrid == InitGrid /\ [][NextGrid]_vars

---------------------------------------------------------------------------
(* TWAP run: TWAPOrder.execute_twap_strategy *)

\* OrderValidator.validate_side: the side in upper case is BUY or SELL
validate_side(side) == side \in {"BUY", "SELL", "buy", "sell"}

\* str.upper() of a side, as place_order sends it
Upper(side) == IF side \in {"BUY", "buy"} THEN "BUY" ELSE "SELL"

\* lines 52-61: the arguments execute_twap_strategy accepts.  num_chunks is
\* compared with the quantity in whole units.
TwapArgsValid(a) ==
    /\ validate_symbol(a.symbol)
    /\ validate_side(a.side)
    /\ validate_quantity(a.total_quantity)
    /\ a.duration_seconds > 0
    /\ a.num_chunks > 0
    /\ ~(a.num_chunks * QtyScale > a.total_quantity)

\* line 64
chunk_size(a) == a.total_quantity \div a.num_chunks

\* line 65
base_interval(a) == a.duration_seconds \div a.num_chunks

\* lines 94-97: base_interval, or base_interval * U(0.8, 1.2) with jitter,
\* of which the model draws the two ends
Intervals(a) ==
    IF a.randomize_intervals
    THEN {(base_interval(a) * 8) \div 10, (base_interval(a) * 12) \div 10}
    ELSE {base_interval(a)}

\* a wait that is also taken before the first chunk
SleepBeforeEvery(i, interval) == interval

\* lines 100-101: every chunk but the first waits for its interval
SleepBefore(i, interval) == IF i > 0 THEN interval ELSE 0

\* limit_price_offset = 0.001, in thousandths
LimitPriceOffset == 1

\* lines 110-113: the limit price of a chunk; the side is compared with
\* SIDE_TYPES["BUY"] as given
LimitPrice(side, price) ==
    IF side = "BUY"
    THEN (price * (1000 + LimitPriceOffset)) \div 1000
    ELSE (price * (1000 - LimitPriceOffset)) \div 1000

\* a chunk's entry in execution_results["chunks"]; a failed, pending or
\* cancelled chunk has no executed_quantity and no cost, read as 0 by
\* lines 124-125
ChunkResult(chunk_number, status, order_id, executed_quantity, price) ==
    [chunk_number |-> chunk_number, status |-> status, order_id |-> order_id,
     executed_quantity |-> executed_quantity, price |-> price,
     cost |-> executed_quantity * price]

\* lines 139-140: the average price once the loop is over
Finalized(r) ==
    IF r.total_executed > 0
    THEN [r EXCEPT !.average_price = r.total_cost \div r.total_executed]
    ELSE r

\* line 91: the loop goes on with the next chunk, or ends
LoopOn(i) == IF i + 1 < twap_args.num_chunks THEN "sleep" ELSE "done"

\* a bookkeeping that counts the ordered quantity of a cancelled chunk as
\* executed at the price read for it
RecordChunkCountingCancelled(result) ==
    /\ execution_results' =
          LET counted == IF result.status = "cancelled"
                         THEN chunk_size(twap_args) ELSE result.executed_quantity
              r == [execution_results EXCEPT
                       !.chunks = Append(@, result),
                       !.total_executed = @ + counted,
                       !.total_cost = @ + counted * ticker_price]
          IN  IF LoopOn(chunk_i) = "done" THEN Finalized(r) ELSE r
    /\ chunk_i' = chunk_i + 1
    /\ tpc' = LoopOn(chunk_i)
    /\ chunk_order_id' = 0

\* lines 123-125: the chunk's result is appended and added to the totals,
\* and the loop goes on; after the last chunk lines 139-152 end the run
RecordChunk(result) ==
    /\ execution_results' =
          LET r == [execution_results EXCEPT
                       !.chunks = Append(@, result),
                       !.total_executed = @ + result.executed_quantity,
                       !.total_cost = @ + result.cost]
          IN  IF LoopOn(chunk_i) = "done" THEN Finalized(r) ELSE r
    /\ chunk_i' = chunk_i + 1
    /\ tpc' = LoopOn(chunk_i)
    /\ chunk_order_id' = 0

\* an entry of the log: a venue request (ticker, place_order, get_order,
\* cancel_order) or a sleep (fill_wait), with the chunk it belongs to, the
\* order it names, the clock, whether the request was answered, and for
\* get_order the status the order had at the venue at that moment
LogEntry(call, order_id, ok, status) ==
    [call |-> call, chunk |-> chunk_i + 1, order_id |-> order_id,
     time |-> clock, ok |-> ok, status |-> status]

Logged(entry) == twap_log' = Append(twap_log, entry)

\* a validation that raises only after the price was read
TwapValidateAfterPrice ==
    /\ tpc = "validate"
    /\ tpc' = IF TwapArgsValid(twap_args) THEN "sleep" ELSE "raised"
    /\ twap_log' = IF TwapArgsValid(twap_args) THEN twap_log
                   ELSE Append(twap_log, LogEntry("ticker", 0, TRUE, "NONE"))
    /\ UNCHANGED <<venueVars, gridVars, otherVars, twap_args, chunk_i, clock, ticker_price,
                   chunk_order_id, execution_results>>

\* lines 50-89: validation; a ValidationError leaves through the outer
\* except clause, which re-raises
TwapValidate ==
    /\ tpc = "validate"
    /\ tpc' = IF TwapArgsValid(twap_args) THEN "sleep" ELSE "raised"
    /\ UNCHANGED <<venueVars, gridVars, otherVars, twap_args, chunk_i, clock, ticker_price,
                   chunk_order_id, execution_results, twap_log>>

\* lines 93-101: the interval is drawn and, after the first chunk, slept
TwapSleep ==
    /\ tpc = "sleep"
    /\ \E interval \in (IF chunk_i > 0 THEN Intervals(twap_args)
                                       ELSE {base_interval(twap_args)}) :
          clock' = clock + SleepBefore(chunk_i, interval)
    /\ tpc' = "price"
    /\ UNCHANGED <<venueVars, gridVars, otherVars, twap_args, chunk_i, ticker_price,
                   chunk_order_id, execution_results, twap_log>>

\* prices the ticker may report to a TWAP run
TwapTickerPrices == {1000, 2000}

\* lines 103-105: the price is read
TwapReadPrice ==
    /\ tpc = "price"
    /\ \E p \in TwapTickerPrices : ticker_price' = p
    /\ Logged(LogEntry("ticker", 0, TRUE, "NONE"))
    /\ tpc' = "place"
    /\ UNCHANGED <<venueVars, gridVars, otherVars, twap_args, chunk_i, clock,
                   chunk_order_id, execution_results>>

\* a handler that gives up the run when the price cannot be read
TwapPriceFailsAbort ==
    /\ tpc = "price"
    /\ Logged(LogEntry("ticker", 0, FALSE, "NONE"))
    /\ tpc' = "done"
    /\ UNCHANGED <<venueVars, gridVars, otherVars, twap_args, chunk_i, clock, ticker_price,
                   chunk_order_id, execution_results>>

\* lines 104, 130-136: get_symbol_price_ticker raises; the except clause of
\* the iteration appends a failed chunk and the loop goes on
TwapPriceFails ==
    /\ tpc = "price"
    /\ Logged(LogEntry("ticker", 0, FALSE, "NONE"))
    /\ RecordChunk(ChunkResult(chunk_i + 1, "failed", 0, 0, 0))
    /\ UNCHANGED <<venueVars, gridVars, otherVars, twap_args, clock, ticker_price>>

\* the order of the chunk in hand: a market order (line 168) or a limit
\* order at the limit price (lines 110-117, 219); the side goes out in upper
\* case.  A market order carries no price; the order's price is the market
\* price it fills at.
ChunkOrder ==
    IF twap_args.use_limit_orders
    THEN NewOrder("LIMIT", Upper(twap_args.side), chunk_size(twap_args),
                  LimitPrice(twap_args.side, ticker_price), "twap", 0, chunk_i + 1)
    ELSE NewOrder("MARKET", Upper(twap_args.side), chunk_size(twap_args),
                  ticker_price, "twap", 0, chunk_i + 1)

\* place_market_order / place_limit_order validate before they send
ChunkOrderValid ==
    /\ validate_quantity(ChunkOrder.quantity)
    /\ twap_args.use_limit_orders => validate_price(ChunkOrder.price)

\* lines 168-172, 219-223: the order is accepted with an orderId; a market
\* chunk goes on to get_order, a limit chunk to its fill wait
TwapPlace ==
    /\ tpc = "place"
    /\ ChunkOrderValid
    /\ venue' = Append(venue, ChunkOrder)
    /\ chunk_order_id' = NextOrderId
    /\ Logged(LogEntry("place_order", NextOrderId, TRUE, "NONE"))
    /\ tpc' = IF twap_args.use_limit_orders THEN "wait" ELSE "query"
    /\ UNCHANGED <<fills, cancels, gridVars, otherVars, twap_args, chunk_i, clock, ticker_price,
                   execution_results>>

\* lines 193-197, 251-255: the answer carries no orderId, the chunk is pending
TwapPlaceNoId ==
    /\ tpc = "place"
    /\ ChunkOrderValid
    /\ Logged(LogEntry("place_order", 0, TRUE, "NONE"))
    /\ RecordChunk(ChunkResult(chunk_i + 1, "pending", 0, 0, 0))
    /\ UNCHANGED <<venueVars, gridVars, otherVars, twap_args, clock, ticker_price>>

\* lines 199-205, 257-263: validation or place_order raises; the chunk's own
\* except clause returns a failed chunk
TwapPlaceFails ==
    /\ tpc = "place"
    /\ Logged(LogEntry("place_order", 0, FALSE, "NONE"))
    /\ RecordChunk(ChunkResult(chunk_i + 1, "failed", 0, 0, 0))
    /\ UNCHANGED <<venueVars, gridVars, otherVars, twap_args, clock, ticker_price>>

\* line 225: time.sleep(2) before the limit order's status is asked
TwapFillWait ==
    /\ tpc = "wait"
    /\ clock' = clock + FillWait
    /\ Logged(LogEntry("fill_wait", chunk_order_id, TRUE, "NONE"))
    /\ tpc' = "query"
    /\ UNCHANGED <<venueVars, gridVars, otherVars, twap_args, chunk_i, ticker_price,
                   chunk_order_id, execution_results>>

\* lines 173-191, 227-240: get_order answers FILLED, the chunk is executed
TwapQueryFilled ==
    /\ tpc = "query"
    /\ venue[chunk_order_id].status = "FILLED"
    /\ Logged(LogEntry("get_order", chunk_order_id, TRUE, "FILLED"))
    /\ RecordChunk(ChunkResult(chunk_i + 1, "executed", chunk_order_id,
                               venue[chunk_order_id].executedQty,
                               venue[chunk_order_id].avgPrice))
    /\ UNCHANGED <<venueVars, gridVars, otherVars, twap_args, clock, ticker_price>>

\* lines 175, 193-197: a market order not FILLED leaves the chunk pending
TwapQueryPending ==
    /\ tpc = "query"
    /\ ~twap_args.use_limit_orders
    /\ venue[chunk_order_id].status # "FILLED"
    /\ Logged(LogEntry("get_order", chunk_order_id, TRUE, venue[chunk_order_id].status))
    /\ RecordChunk(ChunkResult(chunk_i + 1, "pending", chunk_order_id, 0, 0))
    /\ UNCHANGED <<venueVars, gridVars, otherVars, twap_args, clock, ticker_price>>

\* lines 229, 241-243: a limit order not FILLED is to be cancelled
TwapQueryUnfilled ==
    /\ tpc = "query"
    /\ twap_args.use_limit_orders
    /\ venue[chunk_order_id].status # "FILLED"
    /\ Logged(LogEntry("get_order", chunk_order_id, TRUE, venue[chunk_order_id].status))
    /\ tpc' = "cancel"
    /\ UNCHANGED <<venueVars, gridVars, otherVars, twap_args, chunk_i, clock, ticker_price,
                   chunk_order_id, execution_results>>

\* lines 173, 227 with 199-205, 257-263: get_order raises; the chunk's
\* except clause returns a failed chunk
TwapQueryFails ==
    /\ tpc = "query"
    /\ Logged(LogEntry("get_order", chunk_order_id, FALSE, venue[chunk_order_id].status))
    /\ RecordChunk(ChunkResult(chunk_i + 1, "failed", 0, 0, 0))
    /\ UNCHANGED <<venueVars, gridVars, otherVars, twap_args, clock, ticker_price>>

\* lines 243-249: cancel_order is answered, the chunk is cancelled; the
\* venue cancels an order that is still open
TwapCancel ==
    /\ tpc = "cancel"
    /\ venue[chunk_order_id].status = "NEW"
    /\ venue' = [venue EXCEPT ![chunk_order_id].status = "CANCELED"]
    /\ Logged(LogEntry("cancel_order", chunk_order_id, TRUE, "NONE"))
    /\ RecordChunk(ChunkResult(chunk_i + 1, "cancelled", chunk_order_id, 0, 0))
    /\ UNCHANGED <<fills, cancels, gridVars, otherVars, twap_args, clock, ticker_price>>

\* lines 243, 257-263: cancel_order raises (the request fails, or the venue
\* refuses it because the order was filled meanwhile); the chunk is failed
TwapCancelFails ==
    /\ tpc = "cancel"
    /\ Logged(LogEntry("cancel_order", chunk_order_id, FALSE, "NONE"))
    /\ RecordChunk(ChunkResult(chunk_i + 1, "failed", 0, 0, 0))
    /\ UNCHANGED <<venueVars, gridVars, otherVars, twap_args, clock, ticker_price>>

\* The venue fills an order of the run while the run goes on: before its
\* status is asked, between that and the cancel request, or after the chunk
\* (an order left pending).  The run reads the venue only at get_order and
\* cancel_order, so a fill at any other moment is seen as one of these.
TwapVenueFill ==
    /\ tpc \in {"sleep", "query", "cancel"}
    /\ \E id \in 1..Len(venue) : VenueFill(id)
    /\ UNCHANGED <<gridVars, twapVars, otherVars>>

\* quantities of a TWAP run: eight units, half a unit
TwapQuantities == {8 * QtyScale, QtyScale \div 2}

\* durations of a TWAP run, in seconds
TwapDurations == {60}

\* sides validate_side accepts
TwapSides == {"BUY", "SELL", "buy"}

\* a valid argument list
TwapGoodArgs ==
    [symbol |-> "BTCUSDT", side |-> "BUY", total_quantity |-> 8 * QtyScale,
     duration_seconds |-> 60, num_chunks |-> 1,
     use_limit_orders |-> FALSE, randomize_intervals |-> FALSE]

\* argument lists with one argument that the validation refuses: an
\* unsupported and an empty symbol, a side that is neither BUY nor SELL, a
\* zero and a too large quantity, a zero and a negative duration
TwapBadArgs ==
    {[TwapGoodArgs EXCEPT !.symbol = sym] : sym \in {"XYZUSDT", ""}}
    \cup {[TwapGoodArgs EXCEPT !.side = "HOLD"]}
    \cup {[TwapGoodArgs EXCEPT !.total_quantity = q] :
             q \in {0, (MaxValue + 1) * QtyScale}}
    \cup {[TwapGoodArgs EXCEPT !.duration_seconds = d] : d \in {0, -60}}

\* the run of the documented example, as cmd_twap_buy starts it:
\* twap-buy BTCUSDT 0.01 3600 10
DocumentedExample ==
    [symbol |-> "BTCUSDT", side |-> "BUY", total_quantity |-> QtyScale \div 100,
     duration_seconds |-> 3600, num_chunks |-> 10,
     use_limit_orders |-> FALSE, randomize_intervals |-> TRUE]

\* The argument lists of the TWAP runs.  The jitter changes the waits only,
\* which do not depend on the side, so it is drawn for one side.
TwapArgs ==
    {DocumentedExample} \cup TwapBadArgs \cup
    {a \in [symbol : {"BTCUSDT"},
            side : TwapSides,
            total_quantity : TwapQuantities,
            duration_seconds : TwapDurations,
            num_chunks : 0..MaxChunks,
            use_limit_orders : BOOLEAN,
            randomize_intervals : BOOLEAN] :
        a.randomize_intervals => a.side = "BUY"}

\* execution_results as built in lines 76-87
TwapInit ==
    /\ tpc = "validate"
    /\ twap_args \in TwapArgs
    /\ chunk_i = 0
    /\ clock = 0
    /\ ticker_price = 0
    /\ chunk_order_id = 0
    /\ execution_results = [chunks |-> <<>>, total_executed |-> 0,
                            total_cost |-> 0, average_price |-> 0]
    /\ twap_log = <<>>

\* no grid run is going on
GridIdle ==
    /\ gpc = "idle"
    /\ grid_orders = <<>>
    /\ max_concurrent_orders = 0
    /\ auto_rebalance = FALSE
    /\ current_price = 0
    /\ level_idx = 1
    /\ placed_orders = <<>>
    /\ executed_orders = <<>>
    /\ total_profit = 0
    /\ open_orders = {}
    /\ snapshot_size = 0
    /\ scan_idx = 1
    /\ polls = 0
    /\ monitor_error = FALSE

InitTwap ==
    VenueInit /\ GridIdle /\ TwapInit /\ MonitorIdle /\ PlannerIdle /\ CallsIdle

NextTwap ==
    \/ TwapValidate
    \/ TwapSleep
    \/ TwapReadPrice
    \/ TwapPriceFails
    \/ TwapPlace
    \/ TwapPlaceNoId
    \/ TwapPlaceFails
    \/ TwapFillWait
    \/ TwapQueryFilled
    \/ TwapQueryPending
    \/ TwapQueryUnfilled
    \/ TwapQueryFails
    \/ TwapCancel
    \/ TwapCancelFails
    \/ TwapVenueFill

SpecTwap == InitTwap /\ [][NextTwap]_vars

---------------------------------------------------------------------------
(* A strategy call: one grid run or one TWAP run, each taking its steps *)

\* the steps of execute_grid_strategy itself
GridStep ==
    \/ GetTicker
    \/ PlaceGridLevel
    \/ MonitorPoll
    \/ MonitorExpire
    \/ MonitorStillOpen
    \/ MonitorGetOrderFails
    \/ MonitorNotFilled
    \/ MonitorRebalance
    \/ MonitorSleep

\* the steps of execute_twap_strategy itself
TwapStep ==
    \/ TwapValidate
    \/ TwapSleep
    \/ TwapReadPrice
    \/ TwapPriceFails
    \/ TwapPlace
    \/ TwapPlaceNoId
    \/ TwapPlaceFails
    \/ TwapFillWait
    \/ TwapQueryFilled
    \/ TwapQueryPending
    \/ TwapQueryUnfilled
    \/ TwapQueryFails
    \/ TwapCancel
    \/ TwapCancelFails

\* the TWAP runs followed to their end: without jitter, which changes the
\* length of the sleeps only
TwapArgsPlain == {a \in TwapArgs : ~a.randomize_intervals}

\* the grid runs followed to their end: the placement over every ladder,
\* the monitoring over the ladder of one level (the loop over placed_orders
\* takes the same steps for each of them)
GridRunFollowed == Len(grid_orders) = 1 \/ ~auto_rebalance

InitRuns ==
    \/ InitGrid /\ GridRunFollowed
    \/ InitTwap /\ twap_args \in TwapArgsPlain

NextRuns ==
    \/ NextGrid
    \/ NextTwap

\* every venue request is answered or raises and every sleep ends, so a run
\* always takes its next step; the venue is free to fill or cancel or not
SpecRuns == InitRuns /\ [][NextRuns]_vars /\ WF_vars(GridStep) /\ WF_vars(TwapStep)

---------------------------------------------------------------------------
(* Order monitor: LimitOrderManager.monitor_order_fill *)

\* largest timeout a call of monitor_order_fill is given, in seconds
MaxTimeout == 12

\* time.sleep(5) between two polls
MonitorPollWait == 5

\* the timeouts of the calls: none, less than one wait, several waits
Timeouts == {0, 3, MaxTimeout}

\* a test that ends the polling on FILLED only
IsTerminalFilledOnly(status) == status = "FILLED"

\* lines 391-401: the statuses on which the loop returns
IsTerminal(status) ==
    \/ status = "FILLED"
    \/ status = "CANCELED"
    \/ status = "REJECTED"

\* an entry of the call's log: a request to the venue, the loop poll or the
\* request after the loop (phase), the time it was made, whether it was
\* answered and the snapshot it was answered with
MonEntry(call, phase, ok, snapshot) ==
    [call |-> call, phase |-> phase, time |-> elapsed, ok |-> ok,
     snapshot |-> snapshot]

\* line 387: the loop test
TimeRemains == elapsed < timeout

\* lines 387-401: the loop test passes and get_order answers; a terminal
\* status is returned, any other goes on to the sleep
MonPoll ==
    /\ mpc = "loop"
    /\ TimeRemains
    /\ mon_log' = Append(mon_log, MonEntry("get_order", "poll", TRUE, venue[1]))
    /\ IF IsTerminal(venue[1].status)
       THEN mpc' = "returned" /\ mon_result' = venue[1]
       ELSE mpc' = "sleep" /\ UNCHANGED mon_result
    /\ UNCHANGED <<venueVars, gridVars, twapVars, planVars, callVars, timeout, elapsed>>

\* lines 388, 409-411: get_order raises in the loop; the except clause logs
\* and re-raises
MonPollFails ==
    /\ mpc = "loop"
    /\ TimeRemains
    /\ mon_log' = Append(mon_log, MonEntry("get_order", "poll", FALSE, NoSnapshot))
    /\ mpc' = "raised"
    /\ UNCHANGED <<venueVars, gridVars, twapVars, planVars, callVars, timeout, elapsed,
                   mon_result>>

\* line 404: the wait before the next poll
MonSleep ==
    /\ mpc = "sleep"
    /\ elapsed' = elapsed + MonitorPollWait
    /\ mpc' = "loop"
    /\ UNCHANGED <<venueVars, gridVars, twapVars, planVars, callVars, timeout, mon_result,
                   mon_log>>

\* lines 387, 406-407: the loop test fails; get_order is asked once more and
\* its answer is returned as it is
MonTimeout ==
    /\ mpc = "loop"
    /\ ~TimeRemains
    /\ mon_log' = Append(mon_log, MonEntry("get_order", "final", TRUE, venue[1]))
    /\ mon_result' = venue[1]
    /\ mpc' = "returned"
    /\ UNCHANGED <<venueVars, gridVars, twapVars, planVars, callVars, timeout, elapsed>>

\* lines 407, 409-411: the request after the loop raises
MonTimeoutFails ==
    /\ mpc = "loop"
    /\ ~TimeRemains
    /\ mon_log' = Append(mon_log, MonEntry("get_order", "final", FALSE, NoSnapshot))
    /\ mpc' = "raised"
    /\ UNCHANGED <<venueVars, gridVars, twapVars, planVars, callVars, timeout, elapsed,
                   mon_result>>

\* statuses the venue moves an open order to
NextStatuses == {"PARTIALLY_FILLED", "FILLED", "CANCELED", "REJECTED", "EXPIRED"}

\* The venue moves the monitored order on while it is still open.  The call
\* reads the venue only at get_order, so the venue's steps are taken before
\* a request.
MonVenueStep ==
    /\ mpc = "loop"
    /\ venue[1].status \in {"NEW", "PARTIALLY_FILLED"}
    /\ \E st \in NextStatuses \ {venue[1].status} :
          venue' = [venue EXCEPT
                       ![1].status = st,
                       ![1].executedQty =
                           IF st = "FILLED" THEN venue[1].quantity
                           ELSE IF st = "PARTIALLY_FILLED" THEN venue[1].quantity \div 2
                           ELSE @,
                       ![1].avgPrice =
                           IF st \in {"FILLED", "PARTIALLY_FILLED"} THEN venue[1].price
                           ELSE @]
    /\ UNCHANGED <<fills, cancels, gridVars, twapVars, otherVars>>

\* the call starts with the order open at the venue (line 385)
MonitorInit ==
    /\ mpc = "loop"
    /\ timeout \in Timeouts
    /\ elapsed = 0
    /\ mon_result = NoSnapshot
    /\ mon_log = <<>>

InitMonitor ==
    /\ venue = <<MonitoredOrder>> /\ fills = 0 /\ cancels = 0
    /\ GridIdle /\ TwapIdle /\ MonitorInit /\ PlannerIdle /\ CallsIdle

\* the steps of monitor_order_fill itself
MonitorStep ==
    \/ MonPoll
    \/ MonPollFails
    \/ MonSleep
    \/ MonTimeout
    \/ MonTimeoutFails

NextMonitor ==
    \/ MonPoll
    \/ MonPollFails
    \/ MonSleep
    \/ MonTimeout
    \/ MonTimeoutFails
    \/ MonVenueStep

SpecMonitor == InitMonitor /\ [][NextMonitor]_vars

\* every request is answered or raises and every sleep ends, so the call
\* always takes its next step
SpecMonitorLive == SpecMonitor /\ WF_vars(MonitorStep)

---------------------------------------------------------------------------
(* Grid planners: GridOrder.create_grid_strategy and create_martingale_grid *)

\* largest grid_number a planner is called with
MaxGridNumber == 4

\* one unit of the geometric ratio is RatioScale fixed-point units
RatioScale == 100

\* 1% of the base price is the martingale price step: base_price * 0.01
StepPercent == 1

RECURSIVE Power(_, _)
Power(b, e) == IF e = 0 THEN 1 ELSE b * Power(b, e - 1)

\* ratio ** e in fixed point, rounded down after every multiplication
RECURSIVE RatioPower(_, _)
RatioPower(ratio, e) ==
    IF e = 0 THEN RatioScale ELSE (RatioPower(ratio, e - 1) * ratio) \div RatioScale

\* line 64: (upper_price / lower_price) ** (1 / (grid_number - 1)), as the
\* largest fixed-point ratio whose power does not pass upper / lower
geometric_ratio(lower_price, upper_price, grid_number) ==
    LET k == grid_number - 1
        fits(r) == RatioPower(r, k) * lower_price <= upper_price * RatioScale
    IN  CHOOSE r \in RatioScale..((RatioScale * upper_price) \div lower_price) :
            fits(r) /\ ~fits(r + 1)

\* lines 63-65, 69-93: the ladder of a geometric grid
create_geometric_grid(lower_price, upper_price, grid_number, total_investment) ==
    LET ratio == geometric_ratio(lower_price, upper_price, grid_number)
        grid_prices == [i \in 1..grid_number |->
                           (lower_price * RatioPower(ratio, i - 1)) \div RatioScale]
        investment_per_grid == total_investment \div grid_number
    IN  [i \in 1..(grid_number - 1) |->
            LET buy_price == grid_prices[i]
                buy_quantity == (investment_per_grid * QtyScale) \div buy_price
                sell_price == grid_prices[i + 1]
            IN  [level |-> i,
                 buy_price |-> buy_price,
                 buy_quantity |-> buy_quantity,
                 sell_price |-> sell_price,
                 sell_quantity |-> buy_quantity,
                 investment |-> investment_per_grid,
                 potential_profit |-> (sell_price - buy_price) * buy_quantity]]

\* line 326: sum(multiplier ** j for j in range(grid_number))
RECURSIVE MultiplierSum(_, _)
MultiplierSum(multiplier, n) ==
    IF n = 0 THEN 0 ELSE Power(multiplier, n - 1) + MultiplierSum(multiplier, n - 1)

\* lines 320-345: the ladder of a martingale grid
create_martingale_grid(base_price, grid_number, total_investment, multiplier) ==
    LET price_step == (base_price * StepPercent) \div 100
    IN  [k \in 1..grid_number |->
            LET i == k - 1
                position_size == (total_investment * Power(multiplier, i))
                                     \div MultiplierSum(multiplier, grid_number)
                buy_price == base_price - i * price_step
                sell_price == base_price + i * price_step
            IN  [level |-> i + 1,
                 buy_price |-> buy_price,
                 buy_quantity |-> (position_size * QtyScale) \div buy_price,
                 sell_price |-> sell_price,
                 sell_quantity |-> (position_size * QtyScale) \div sell_price,
                 investment |-> position_size,
                 multiplier |-> Power(multiplier, i)]]

\* lines 46-57: what create_grid_strategy accepts (the symbol is a
\* supported one)
GridArgsValid(a) ==
    /\ validate_price(a.upper_price)
    /\ validate_price(a.lower_price)
    /\ ~(a.upper_price <= a.lower_price)
    /\ ~(a.grid_number < 2)
    /\ ~(a.total_investment <= 0)

\* lines 311-318: what create_martingale_grid accepts
MartingaleArgsValid(a) ==
    /\ validate_price(a.base_price)
    /\ ~(a.grid_number < 2)
    /\ ~(a.multiplier <= 1)

\* lines 44-120: create_grid_strategy returns the ladder of its grid type,
\* or raises the ValidationError of its validation
CallCreateGridStrategy ==
    /\ ppc = "call"
    /\ plan_args.planner = "grid"
    /\ IF GridArgsValid(plan_args)
       THEN /\ grid_strategy' =
                   IF plan_args.grid_type = "arithmetic"
                   THEN create_grid_strategy(plan_args.lower_price, plan_args.upper_price,
                                             plan_args.grid_number,
                                             plan_args.total_investment)
                   ELSE create_geometric_grid(plan_args.lower_price,
                                              plan_args.upper_price,
                                              plan_args.grid_number,
                                              plan_args.total_investment)
            /\ ppc' = "returned"
       ELSE /\ ppc' = "raised"
            /\ UNCHANGED grid_strategy
    /\ UNCHANGED <<venueVars, gridVars, twapVars, monVars, callVars, plan_args>>

\* lines 309-369: create_martingale_grid returns its ladder, or raises the
\* ValidationError of its validation
CallCreateMartingaleGrid ==
    /\ ppc = "call"
    /\ plan_args.planner = "martingale"
    /\ IF MartingaleArgsValid(plan_args)
       THEN /\ grid_strategy' =
                   create_martingale_grid(plan_args.base_price, plan_args.grid_number,
                                          plan_args.total_investment,
                                          plan_args.multiplier)
            /\ ppc' = "returned"
       ELSE /\ ppc' = "raised"
            /\ UNCHANGED grid_strategy
    /\ UNCHANGED <<venueVars, gridVars, twapVars, monVars, callVars, plan_args>>

\* prices a planner is called with: none, and the bounds of the ladders
LowerPrices == {0, 10, 95}
UpperPrices == {10, 40, 105}
BasePrices == {0, 100, 200}

\* investments a planner is called with: negative, none, Scenario A's
Investments == {-300, 0, 300}

\* multipliers of a martingale grid (2 is the default)
Multipliers == {0, 1, 2, 3}

\* the calls of create_grid_strategy
GridPlanArgs ==
    [planner : {"grid"}, grid_type : {"arithmetic", "geometric"},
     upper_price : UpperPrices, lower_price : LowerPrices, base_price : {0},
     grid_number : 0..MaxGridNumber, total_investment : Investments,
     multiplier : {0}]

\* the calls of create_martingale_grid
MartingalePlanArgs ==
    [planner : {"martingale"}, grid_type : {"arithmetic"},
     upper_price : {0}, lower_price : {0}, base_price : BasePrices,
     grid_number : 0..MaxGridNumber, total_investment : Investments,
     multiplier : Multipliers]

PlannerInit ==
    /\ ppc = "call"
    /\ plan_args \in GridPlanArgs \cup MartingalePlanArgs
    /\ grid_strategy = <<>>

InitPlanner ==
    VenueInit /\ GridIdle /\ TwapIdle /\ MonitorIdle /\ PlannerInit /\ CallsIdle

NextPlanner ==
    \/ CallCreateGridStrategy
    \/ CallCreateMartingaleGrid

SpecPlanner == InitPlanner /\ [][NextPlanner]_vars

---------------------------------------------------------------------------
(* OCO order: OCOOrder.place_oco_order *)

\* a validation that also wants the three prices of a BUY in their order
OcoArgsValidOrdered(a) ==
    /\ validate_symbol(a.symbol)
    /\ validate_side(a.side)
    /\ validate_quantity(a.quantity)
    /\ validate_price(a.price)
    /\ validate_price(a.stop_price)
    /\ validate_price(a.stop_limit_price)
    /\ validate_time_in_force(a.stop_limit_time_in_force)
    /\ (Upper(a.side) = "BUY" =>
           a.stop_limit_price < a.stop_price /\ a.stop_price < a.price)

\* lines 59-66: every argument is validated by itself
OcoArgsValid(a) ==
    /\ validate_symbol(a.symbol)
    /\ validate_side(a.side)
    /\ validate_quantity(a.quantity)
    /\ validate_price(a.price)
    /\ validate_price(a.stop_price)
    /\ validate_price(a.stop_limit_price)
    /\ validate_time_in_force(a.stop_limit_time_in_force)

\* lines 69-77: oco_params
OcoParams(a) ==
    [symbol |-> upper(a.symbol),
     side |-> Upper(a.side),
     quantity |-> a.quantity,
     price |-> a.price,
     stopPrice |-> a.stop_price,
     stopLimitPrice |-> a.stop_limit_price,
     stopLimitTimeInForce |-> upper(a.stop_limit_time_in_force)]

\* a request of the call to the Gateway: the method, its parameters, whether
\* it was answered and with what
OcoRequest(call, params, ok, answer) ==
    [call |-> call, params |-> params, ok |-> ok, answer |-> answer]

\* what the venue answers to an accepted OCO request
OcoResponses == {[orderListId |-> n] : n \in {7, 8}}

\* no response
NoResponse == [orderListId |-> 0]

\* lines 58-66: validation; a ValidationError is logged and re-raised
\* (lines 108-110)
OcoValidate ==
    /\ opc = "validate"
    /\ opc' = IF OcoArgsValid(oco_args) THEN "submit" ELSE "raised"
    /\ UNCHANGED <<venueVars, gridVars, twapVars, monVars, planVars>>
    /\ UNCHANGED <<oco_args, oco_requests, oco_response, volume_profile, dcaVars,
                   bracketVars>>

\* a submission of the three prices as three orders of their own
OcoSubmitAsOrders ==
    /\ opc = "submit"
    /\ \E response \in OcoResponses :
          /\ oco_requests' =
                oco_requests \o
                [k \in 1..3 |->
                    OcoRequest("place_order",
                               [OcoParams(oco_args) EXCEPT
                                   !.price = <<oco_args.price, oco_args.stop_price,
                                               oco_args.stop_limit_price>>[k]],
                               TRUE, response)]
          /\ oco_response' = response
    /\ opc' = "returned"
    /\ UNCHANGED <<venueVars, gridVars, twapVars, monVars, planVars>>
    /\ UNCHANGED <<oco_args, volume_profile, dcaVars, bracketVars>>

\* lines 101-106: the one request is answered and its response returned
OcoSubmit ==
    /\ opc = "submit"
    /\ \E response \in OcoResponses :
          /\ oco_requests' =
                Append(oco_requests,
                       OcoRequest("place_oco_order", OcoParams(oco_args), TRUE, response))
          /\ oco_response' = response
    /\ opc' = "returned"
    /\ UNCHANGED <<venueVars, gridVars, twapVars, monVars, planVars>>
    /\ UNCHANGED <<oco_args, volume_profile, dcaVars, bracketVars>>

\* lines 101, 111-113: the request raises (the venue refuses it, the
\* network fails); the exception is logged and re-raised
OcoSubmitFails ==
    /\ opc = "submit"
    /\ oco_requests' =
          Append(oco_requests,
                 OcoRequest("place_oco_order", OcoParams(oco_args), FALSE, NoResponse))
    /\ opc' = "raised"
    /\ UNCHANGED <<venueVars, gridVars, twapVars, monVars, planVars>>
    /\ UNCHANGED <<oco_args, oco_response, volume_profile, dcaVars, bracketVars>>

\* symbols given to place_oco_order
OcoSymbols == {"BTCUSDT", "btcusdt", "XYZUSDT"}

\* sides given to place_oco_order
OcoSides == {"BUY", "SELL", "HOLD"}

\* prices given to place_oco_order: none, three in range, one too large
OcoPrices == {0, 90, 100, 110, MaxValue + 1}

\* times in force given to place_oco_order
OcoTimesInForce == {"GTC", "gtc", "DAY"}

\* The argument lists of place_oco_order: every choice of the three prices
\* with the other arguments valid, and every choice of the other arguments
\* with the prices of a well-ordered BUY.
OcoArgs ==
    {a \in [symbol : OcoSymbols, side : OcoSides, quantity : {0, QtyScale},
            price : OcoPrices, stop_price : OcoPrices, stop_limit_price : OcoPrices,
            stop_limit_time_in_force : OcoTimesInForce] :
        \/ /\ a.symbol = "BTCUSDT" /\ a.quantity = QtyScale
           /\ a.stop_limit_time_in_force = "GTC" /\ a.side # "HOLD"
        \/ a.price = 110 /\ a.stop_price = 100 /\ a.stop_limit_price = 90}

OcoInit ==
    /\ opc = "validate"
    /\ oco_args \in OcoArgs
    /\ oco_requests = <<>>
    /\ oco_response = NoResponse

InitOco ==
    /\ VenueInit /\ GridIdle /\ TwapIdle /\ MonitorIdle /\ PlannerIdle
    /\ OcoInit /\ VwIdle /\ DcaIdle /\ BracketIdle

NextOco ==
    \/ OcoValidate
    \/ OcoSubmit
    \/ OcoSubmitFails

SpecOco == InitOco /\ [][NextOco]_vars

---------------------------------------------------------------------------
(* Volume-weighted TWAP: TWAPManager.execute_volume_weighted_twap *)

\* the weight 1.0 of line 294, in thousandths
ProfileUnit == 1000

\* the tolerance 0.01 of line 294, in thousandths
ProfileTolerance == 10

RECURSIVE ProfileSum(_)
\* sum(volume_profile)
ProfileSum(profile) ==
    IF profile = <<>> THEN 0 ELSE Head(profile) + ProfileSum(Tail(profile))

\* abs(x)
Abs(x) == IF x < 0 THEN -x ELSE x

\* lines 290-295: the profile is not empty and its weights sum to 1.0
\* within 0.01
ProfileValid(profile) ==
    /\ Len(profile) > 0
    /\ ~(Abs(ProfileSum(profile) - ProfileUnit) > ProfileTolerance)

\* lines 290-301: the profile is validated and execute_twap_strategy is
\* called with len(volume_profile) chunks and its defaults (market orders,
\* randomized intervals); chunk_sizes of line 298 is not passed on.  A
\* ValidationError is logged and re-raised (lines 304-306).
CallVolumeWeightedTwap ==
    /\ tpc = "vw_call"
    /\ IF ProfileValid(volume_profile)
       THEN /\ twap_args' = [twap_args EXCEPT !.num_chunks = Len(volume_profile),
                                              !.use_limit_orders = FALSE,
                                              !.randomize_intervals = TRUE]
            /\ tpc' = "validate"
       ELSE /\ tpc' = "raised"
            /\ UNCHANGED twap_args
    /\ UNCHANGED <<venueVars, gridVars, otherVars, chunk_i, clock, ticker_price,
                   chunk_order_id, execution_results, twap_log>>

\* profiles given to execute_volume_weighted_twap, in thousandths: none,
\* one period, two and three periods with equal and with unequal weights,
\* a sum within the tolerance and a sum outside it
VolumeProfiles ==
    {<<>>, <<1000>>, <<500, 500>>, <<700, 300>>, <<500, 495>>, <<600, 300>>,
     <<500, 300, 200>>}

\* total quantities given to execute_volume_weighted_twap
VwQuantities == {8 * QtyScale, 2 * QtyScale}

VwInit ==
    /\ tpc = "vw_call"
    /\ twap_args \in [symbol : {"BTCUSDT"}, side : {"BUY", "SELL"},
                      total_quantity : VwQuantities, duration_seconds : TwapDurations,
                      num_chunks : {0}, use_limit_orders : {FALSE},
                      randomize_intervals : {TRUE}]
    /\ volume_profile \in VolumeProfiles
    /\ chunk_i = 0
    /\ clock = 0
    /\ ticker_price = 0
    /\ chunk_order_id = 0
    /\ execution_results = [chunks |-> <<>>, total_executed |-> 0,
                            total_cost |-> 0, average_price |-> 0]
    /\ twap_log = <<>>

InitVwTwap ==
    /\ VenueInit /\ GridIdle /\ VwInit /\ MonitorIdle /\ PlannerIdle
    /\ OcoIdle /\ DcaIdle /\ BracketIdle

\* the steps of the profile's validation and of a run with market chunks
NextVwTwap ==
    \/ CallVolumeWeightedTwap
    \/ TwapValidate
    \/ TwapSleep
    \/ TwapReadPrice
    \/ TwapPriceFails
    \/ TwapPlace
    \/ TwapPlaceNoId
    \/ TwapPlaceFails
    \/ TwapQueryFilled
    \/ TwapQueryPending
    \/ TwapQueryFails
    \/ TwapVenueFill

SpecVwTwap == InitVwTwap /\ [][NextVwTwap]_vars

---------------------------------------------------------------------------
(* Dollar cost averaging: MarketOrderManager.execute_dca_strategy *)

\* line 277: amount_per_order
amount_per_order(a) == a.total_amount \div a.num_orders

\* market_orders.py 117: the quantity bought for a quote amount at a price
QuoteQuantity(amount, price) == (amount * QtyScale) \div price

\* an entry of the call's record of its attempts: the loop index, the time
\* the attempt was made at, and whether an order came back
DcaEntry(ok) == [i |-> dca_i, time |-> dca_clock, ok |-> ok]

\* lines 275-279: amount_per_order is computed; with num_orders = 0 the
\* division raises and the outer except clause re-raises
DcaStart ==
    /\ dpc = "call"
    /\ dpc' = IF dca_args.num_orders = 0 THEN "raised" ELSE "loop"
    /\ UNCHANGED <<venueVars, gridVars, twapVars, monVars, planVars>>
    /\ UNCHANGED <<ocoVars, volume_profile, bracketVars, dca_args, dca_i, dca_clock,
                   dca_log>>

\* lines 283-291: place_market_buy_by_quote reads the price, places the
\* market order and returns it; the order is appended and, unless it was the
\* last one, the call sleeps interval_seconds
DcaOrderPlaced ==
    /\ dpc = "loop"
    /\ dca_i < dca_args.num_orders
    /\ validate_quantity(amount_per_order(dca_args) * QtyScale)
    /\ \E price \in TwapTickerPrices :
          /\ validate_quantity(QuoteQuantity(amount_per_order(dca_args), price))
          /\ venue' = Append(venue,
                         NewOrder("MARKET", "BUY",
                                  QuoteQuantity(amount_per_order(dca_args), price),
                                  price, "dca", 0, dca_i + 1))
    /\ dca_log' = Append(dca_log, DcaEntry(TRUE))
    /\ dca_clock' = IF dca_i < dca_args.num_orders - 1
                    THEN dca_clock + dca_args.interval_seconds
                    ELSE dca_clock
    /\ dca_i' = dca_i + 1
    /\ UNCHANGED <<fills, cancels, gridVars, twapVars, monVars, planVars>>
    /\ UNCHANGED <<ocoVars, volume_profile, bracketVars, dpc, dca_args>>

\* lines 283-285, 293-295: place_market_buy_by_quote raises (its validation,
\* the price read or the placement fails); the except clause logs and the
\* loop goes on with the next index
DcaOrderFails ==
    /\ dpc = "loop"
    /\ dca_i < dca_args.num_orders
    /\ dca_log' = Append(dca_log, DcaEntry(FALSE))
    /\ dca_i' = dca_i + 1
    /\ UNCHANGED <<venueVars, gridVars, twapVars, monVars, planVars>>
    /\ UNCHANGED <<ocoVars, volume_profile, bracketVars, dpc, dca_args, dca_clock>>

\* lines 297-298: the loop is over, orders is returned
DcaReturn ==
    /\ dpc = "loop"
    /\ dca_i >= dca_args.num_orders
    /\ dpc' = "returned"
    /\ UNCHANGED <<venueVars, gridVars, twapVars, monVars, planVars>>
    /\ UNCHANGED <<ocoVars, volume_profile, bracketVars, dca_args, dca_i, dca_clock,
                   dca_log>>

\* total amounts given to execute_dca_strategy, in USDT
DcaAmounts == {0, 6000}

\* intervals given to execute_dca_strategy (300 is the default)
DcaIntervals == {60, 300}

DcaInit ==
    /\ dpc = "call"
    /\ dca_args \in [total_amount : DcaAmounts, num_orders : 0..MaxDcaOrders,
                     interval_seconds : DcaIntervals]
    /\ dca_i = 0
    /\ dca_clock = 0
    /\ dca_log = <<>>

InitDca ==
    /\ VenueInit /\ GridIdle /\ TwapIdle /\ MonitorIdle /\ PlannerIdle
    /\ OcoIdle /\ VwIdle /\ DcaInit /\ BracketIdle

NextDca ==
    \/ DcaStart
    \/ DcaOrderPlaced
    \/ DcaOrderFails
    \/ DcaReturn

SpecDca == InitDca /\ [][NextDca]_vars

---------------------------------------------------------------------------
(* Bracket orders: LimitOrderManager.place_bracket_orders *)

\* place_limit_order validates side, quantity and price before it sends
\* (limit_orders.py 44-48)
LimitOrderValid(side, quantity, price) ==
    validate_side(side) /\ validate_quantity(quantity) /\ validate_price(price)

\* line 261
opposite_side(side) == IF side = "BUY" THEN "SELL" ELSE "BUY"

\* the side and the price of the leg the call is at
LegSide ==
    IF bpc = "entry" THEN bracket_args.side ELSE opposite_side(bracket_args.side)

LegPrice ==
    CASE bpc = "entry" -> bracket_args.entry_price
      [] bpc = "take_profit" -> bracket_args.take_profit_price
      [] OTHER -> bracket_args.stop_loss_price

\* lines 255-258, 264-267, 270-273: the leg's limit order is accepted by
\* the venue and kept in orders; after the stop loss the call returns
\* orders (lines 275-279)
BracketPlaceLeg ==
    /\ bpc \in {"entry", "take_profit", "stop_loss"}
    /\ LimitOrderValid(LegSide, bracket_args.quantity, LegPrice)
    /\ venue' = Append(venue,
                   NewOrder("LIMIT", Upper(LegSide), bracket_args.quantity, LegPrice,
                            bpc, 0, 0))
    /\ orders' = [orders EXCEPT ![bpc] = NextOrderId]
    /\ bpc' = CASE bpc = "entry" -> "take_profit"
                 [] bpc = "take_profit" -> "stop_loss"
                 [] OTHER -> "returned"
    /\ UNCHANGED <<fills, cancels, gridVars, twapVars, monVars, planVars>>
    /\ UNCHANGED <<ocoVars, volume_profile, dcaVars, bracket_args>>

\* lines 281-283: the leg's place_limit_order raises (its validation fails,
\* or the request does); the exception is logged and re-raised
BracketLegFails ==
    /\ bpc \in {"entry", "take_profit", "stop_loss"}
    /\ bpc' = "raised"
    /\ UNCHANGED <<venueVars, gridVars, twapVars, monVars, planVars>>
    /\ UNCHANGED <<ocoVars, volume_profile, dcaVars, bracket_args, orders>>

\* sides given to place_bracket_orders
BracketSides == {"BUY", "SELL"}

\* prices given to place_bracket_orders
BracketPrices == {0, 90, 100, 110}

BracketInit ==
    /\ bpc = "entry"
    /\ bracket_args \in [side : BracketSides, quantity : {0, QtyScale},
                         entry_price : BracketPrices,
                         take_profit_price : BracketPrices,
                         stop_loss_price : BracketPrices]
    /\ orders = [entry |-> 0, take_profit |-> 0, stop_loss |-> 0]

InitBracket ==
    /\ VenueInit /\ GridIdle /\ TwapIdle /\ MonitorIdle /\ PlannerIdle
    /\ OcoIdle /\ VwIdle /\ DcaIdle /\ BracketInit

NextBracket ==
    \/ BracketPlaceLeg
    \/ BracketLegFails

SpecBracket == InitBracket /\ [][NextBracket]_vars

---------------------------------------------------------------------------
(* The calls that validate their parameters first: one TWAP run or one     *)
(* OCO order                                                               *)

InitValidated ==
    \/ InitTwap /\ twap_args \in TwapArgsPlain
    \/ InitOco

NextValidated ==
    \/ NextTwap
    \/ NextOco

SpecValidated == InitValidated /\ [][NextValidated]_vars

---------------------------------------------------------------------------
(* Properties of the grid run *)

OrderIds == 1..Len(venue)

\* the entries of executed_orders made for placed order id
EntriesOf(id) == {k \in 1..Len(executed_orders) : executed_orders[k].order_id = id}

\* the orders the rebalancer sent in answer to the fill of order id
PairedOrdersOf(id) ==
    {o \in OrderIds : venue[o].origin = "rebalance" /\ venue[o].trigger = id}

\* the realized profit entered for sell order id, over all its entries
RECURSIVE ProfitOver(_)
ProfitOver(ks) ==
    IF ks = {} THEN 0
    ELSE LET k == CHOOSE x \in ks : TRUE
         IN  RealizedProfit(executed_orders[k]) + ProfitOver(ks \ {k})

CreditedFor(id) == ProfitOver(EntriesOf(id))

\* the filled sell orders that have an entry in executed_orders
CreditedSells ==
    {executed_orders[k].order_id : k \in {j \in 1..Len(executed_orders) :
                                            executed_orders[j].order_type = "sell"}}

RECURSIVE OneProfitEach(_)
OneProfitEach(ids) ==
    IF ids = {} THEN 0
    ELSE LET id == CHOOSE x \in ids : TRUE
             k == CHOOSE x \in EntriesOf(id) : TRUE
         IN  RealizedProfit(executed_orders[k]) + OneProfitEach(ids \ {id})

\* C1: during grid monitoring the realized profit of a filled order is added
\* to total_profit at most once, however many polls see the order closed
\* and FILLED: total_profit is the sum of one realized profit per filled
\* sell order, and no order has two entries in executed_orders.
C1_ProfitAddedAtMostOnce ==
    /\ total_profit = OneProfitEach(CreditedSells)
    /\ \A id \in OrderIds : Cardinality(EntriesOf(id)) <= 1

\* a round trip whose second leg the run could have seen: the initial buy b
\* of a level filled, the rebalancer answered it with sell s, and s was
\* filled when the venue answered the last get_open_orders
RoundTripSells ==
    {s \in OrderIds :
        /\ venue[s].origin = "rebalance"
        /\ venue[s].side = "SELL"
        /\ venue[s].status = "FILLED"
        /\ s <= snapshot_size
        /\ s \notin open_orders
        /\ venue[venue[s].trigger].origin = "initial"}

\* C2: Scenario C.  When a level's initial buy fills for q and the paired
\* sell the rebalancer then sends also fills before a poll of the window,
\* then once that poll is over total_profit holds exactly
\* (sell_price - buy_price) * q for the round trip, once.
C2_RoundTripCredited ==
    (gpc \in {"monitor", "done"} /\ ~monitor_error) =>
        \A s \in RoundTripSells :
            /\ Cardinality(EntriesOf(s)) = 1
            /\ CreditedFor(s) =
                   (venue[s].avgPrice - venue[venue[s].trigger].avgPrice)
                       * venue[s].executedQty

\* C3: a terminal order is processed once: each placed order seen FILLED
\* has exactly one paired order at the venue and exactly one entry in
\* executed_orders, however many polls see it.
C3_FilledProcessedOnce ==
    \A id \in OrderIds :
        (EntriesOf(id) # {} \/ PairedOrdersOf(id) # {}) =>
            /\ Cardinality(EntriesOf(id)) = 1
            /\ Cardinality(PairedOrdersOf(id)) = 1

\* C4: total_profit changes only when a round trip completes: every entry
\* that adds the profit of a filled sell comes after the entry of a filled
\* buy of the same level.
C4_ProfitOnlyOnRoundTrip ==
    \A k \in 1..Len(executed_orders) :
        executed_orders[k].order_type = "sell" =>
            \E j \in 1..(k - 1) :
                /\ executed_orders[j].order_type = "buy"
                /\ executed_orders[j].grid_level = executed_orders[k].grid_level

\* C5: the order the rebalancer sends for a filled buy of level L is a limit
\* sell at grid_orders[L].sell_price, for a filled sell a limit buy at
\* grid_orders[L].buy_price, in both cases for the executed quantity; L is
\* the level the filled order was placed for.
C5_PairedOrderFromSameLevel ==
    \A o \in OrderIds :
        venue[o].origin = "rebalance" =>
            LET t == venue[venue[o].trigger]
                lvl == grid_orders[t.level]
            IN  /\ venue[o].kind = "LIMIT"
                /\ venue[o].quantity = t.executedQty
                /\ t.side = "BUY" =>
                       venue[o].side = "SELL" /\ venue[o].price = lvl.sell_price
                /\ t.side = "SELL" =>
                       venue[o].side = "BUY" /\ venue[o].price = lvl.buy_price

\* C5 happens: a filled buy of the second level was answered by a sell, and
\* a filled sell by a buy
C5_Witness ==
    /\ \E o \in OrderIds :
          /\ venue[o].origin = "rebalance"
          /\ venue[o].side = "SELL"
          /\ venue[venue[o].trigger].level = 2
    /\ \E o \in OrderIds :
          /\ venue[o].origin = "rebalance"
          /\ venue[o].side = "BUY"

\* C6: at every point of the run the orders of the run still open at the
\* venue are at most max_concurrent_orders.
C6_OutstandingWithinCap == Cardinality(OpenOrderIds) <= max_concurrent_orders

\* C7: in the initial placement a level's buy is sent only if
\* current_price > buy_price and its sell only if current_price < sell_price
\* (so both only when the price is strictly between them).
C7_InitialPlacementStrict ==
    \A o \in OrderIds :
        venue[o].origin = "initial" =>
            LET lvl == grid_orders[venue[o].level]
            IN  /\ venue[o].side = "BUY" =>
                       venue[o].price = lvl.buy_price /\ current_price > lvl.buy_price
                /\ venue[o].side = "SELL" =>
                       venue[o].price = lvl.sell_price /\ current_price < lvl.sell_price

InitialOrders(lvl, side) ==
    {o \in OrderIds : venue[o].origin = "initial" /\ venue[o].level = lvl
                      /\ venue[o].side = side}

\* C7 happens: the placement is over; the current price equals the buy price
\* of a level whose sell was placed and whose buy was not, and the sell
\* price of a level whose buy was placed and whose sell was not
C7_Witness ==
    /\ gpc \in {"monitor", "done"}
    /\ \E l \in 1..Len(grid_orders) :
          /\ current_price = grid_orders[l].buy_price
          /\ InitialOrders(l, "SELL") # {}
          /\ InitialOrders(l, "BUY") = {}
    /\ \E l \in 1..Len(grid_orders) :
          /\ current_price = grid_orders[l].sell_price
          /\ InitialOrders(l, "BUY") # {}
          /\ InitialOrders(l, "SELL") = {}

---------------------------------------------------------------------------
(* Properties of the TWAP run *)

chunks == execution_results.chunks

LogIndices(call) == {k \in 1..Len(twap_log) : twap_log[k].call = call}

\* the chunks whose price read was attempted
AttemptedChunks == {twap_log[k].chunk : k \in LogIndices("ticker")}

\* C8: the chunks list is numbered 1, 2, ... in order, one entry per
\* attempt; a validated run ends with exactly num_chunks entries and with
\* the price read of every chunk 1..num_chunks attempted once, whichever
\* chunks failed.
C8_EveryChunkAttempted ==
    /\ \A k \in 1..Len(chunks) : chunks[k].chunk_number = k
    /\ tpc \in {"sleep", "done"} => Len(chunks) = chunk_i
    /\ tpc = "done" =>
          /\ Len(chunks) = twap_args.num_chunks
          /\ AttemptedChunks = 1..twap_args.num_chunks
          /\ Cardinality(LogIndices("ticker")) = twap_args.num_chunks

\* C8 happens: a run of three chunks is over; the first chunk failed at the
\* price read, the second at a later venue request, the third was executed
C8_Witness ==
    /\ tpc = "done"
    /\ twap_args.num_chunks = 3
    /\ chunks[1].status = "failed"
    /\ \E k \in LogIndices("ticker") : twap_log[k].chunk = 1 /\ ~twap_log[k].ok
    /\ chunks[2].status = "failed"
    /\ \E k \in LogIndices("ticker") : twap_log[k].chunk = 2 /\ twap_log[k].ok
    /\ chunks[3].status = "executed"

\* the fill waits of the chunks before chunk k
WaitsBefore(k) ==
    Cardinality({j \in LogIndices("fill_wait") : twap_log[j].chunk < k})

\* the log entries made when a chunk is attempted and when its order is sent
SubmissionEntries == LogIndices("ticker") \cup LogIndices("place_order")

\* C9 as stated: with jitter disabled chunk k is submitted
\* (k-1) * duration_seconds / num_chunks after the start, in market mode
\* and in limit mode alike.
C9_EvenlySpacedInBothModes ==
    ~twap_args.randomize_intervals =>
        \A j \in SubmissionEntries :
            twap_log[j].time = (twap_log[j].chunk - 1) * base_interval(twap_args)

\* C9 amended: with jitter disabled chunk k is submitted (k-1) base
\* intervals after the start plus the 2 s fill wait of every earlier chunk
\* whose limit order was accepted; in market mode no chunk waits, so chunk k
\* is submitted (k-1) * duration_seconds / num_chunks after the start.
C9_SpacedByIntervalAndFillWaits ==
    ~twap_args.randomize_intervals =>
        /\ \A j \in SubmissionEntries :
              twap_log[j].time =
                  (twap_log[j].chunk - 1) * base_interval(twap_args)
                      + FillWait * WaitsBefore(twap_log[j].chunk)
        /\ ~twap_args.use_limit_orders => LogIndices("fill_wait") = {}

\* C9 happens: in limit mode without jitter the third chunk is sent; of the
\* two chunks before it one waited for its fill and one did not
C9_Witness ==
    /\ ~twap_args.randomize_intervals
    /\ twap_args.use_limit_orders
    /\ \E j \in LogIndices("place_order") :
          /\ twap_log[j].chunk = 3
          /\ twap_log[j].ok
          /\ WaitsBefore(3) = 1
          /\ twap_log[j].time = 2 * base_interval(twap_args) + FillWait

\* the cancel_order requests made for order o
CancelCalls(o) ==
    Cardinality({j \in LogIndices("cancel_order") : twap_log[j].order_id = o})

\* order o was not FILLED at the venue when its fill wait ended, that is
\* when get_order was asked for it
UnfilledAtWaitEnd(o) ==
    \E j \in LogIndices("get_order") :
        twap_log[j].order_id = o /\ twap_log[j].status # "FILLED"

\* C10: between two chunks and at the end of the run, a limit chunk's order
\* that was not FILLED at the end of its fill wait has had exactly one
\* cancel_order request, and every other order (a market chunk's, a chunk's
\* seen FILLED) has had none.
C10_UnfilledLimitCancelledOnce ==
    tpc \in {"sleep", "done"} =>
        \A o \in OrderIds :
            CancelCalls(o) =
                IF venue[o].kind = "LIMIT" /\ UnfilledAtWaitEnd(o) THEN 1 ELSE 0

---------------------------------------------------------------------------
(* Properties of the order monitor *)

\* the call is over: it returned a snapshot or raised
MonitorOver == mpc \in {"returned", "raised"}

\* the get_order requests of the loop (phase "poll") or after it ("final")
MonIndices(phase) == {k \in 1..Len(mon_log) : mon_log[k].phase = phase}

\* the cancel_order requests of the call
MonCancels == {k \in 1..Len(mon_log) : mon_log[k].call = "cancel_order"}

\* C11: a get_order request that fails while time remains in the timeout
\* budget does not end the monitoring: the call has not raised and goes on
\* polling.
C11_FailedQueryRetried ==
    \A k \in 1..Len(mon_log) :
        (~mon_log[k].ok /\ mon_log[k].time < timeout) => mpc # "raised"

\* the call returned because the timeout elapsed, no poll having seen a
\* terminal status
TimedOut == mpc = "returned" /\ MonIndices("final") # {}

\* C12: when the timeout elapses without a terminal status the call returns
\* the last snapshot a poll observed with its status replaced by TIMEOUT,
\* and it has sent no cancel_order.
C12_TimeoutReturnsLastObserved ==
    TimedOut =>
        /\ mon_result.status = "TIMEOUT"
        /\ \E k \in MonIndices("poll") :
              /\ \A j \in MonIndices("poll") : j <= k
              /\ mon_result = [mon_log[k].snapshot EXCEPT !.status = "TIMEOUT"]
        /\ MonCancels = {}

\* the statuses the claim calls terminal
TerminalStatuses == {"FILLED", "CANCELED", "REJECTED"}

\* The safety part of C13, on the log of the call: every request but the
\* last is an answered poll made while time remained, one wait after the
\* poll before it, with a status that is not terminal; a poll answered with
\* a terminal status is the last request and its snapshot is what the call
\* returns; the call returns only on such a poll or once no time remains.
C13_Safety ==
    /\ \A k \in 1..Len(mon_log) :
          /\ mon_log[k].call = "get_order"
          /\ mon_log[k].time = (k - 1) * MonitorPollWait
          /\ k < Len(mon_log) =>
                /\ mon_log[k].phase = "poll"
                /\ mon_log[k].ok
                /\ mon_log[k].time < timeout
                /\ mon_log[k].snapshot.status \notin TerminalStatuses
          /\ (mon_log[k].phase = "poll" /\ mon_log[k].ok
                /\ mon_log[k].snapshot.status \in TerminalStatuses) =>
                /\ k = Len(mon_log)
                /\ mpc = "returned"
                /\ mon_result = mon_log[k].snapshot
    /\ mpc = "returned" =>
          LET last == mon_log[Len(mon_log)]
          IN  /\ last.ok
              /\ mon_result = last.snapshot
              /\ last.phase = "poll" => last.snapshot.status \in TerminalStatuses
              /\ last.phase = "final" => last.time >= timeout
    /\ mpc \in {"loop", "sleep"} => mon_result = NoSnapshot

---------------------------------------------------------------------------
(* Properties of a strategy call *)

\* C14: once the monitoring has begun, a failure of get_open_orders, of
\* get_order or of the paired order's submission is confined to its unit:
\* the poll it happened in still looks at every placed order, and the
\* monitoring ends only when the window of monitoring_duration is over.
C14_FailureConfinedToUnit ==
    monitor_error =>
        /\ scan_idx > Len(placed_orders)
        /\ gpc = "done" => polls * PollInterval >= MonitoringDuration

\* a run raises only before its first unit: the grid run at the ticker
\* read, the TWAP run at the validation
RaisesOnlyBeforeFirstUnit ==
    /\ gpc' = "raised" => gpc \in {"start", "raised"}
    /\ tpc' = "raised" => tpc \in {"validate", "raised"}

\* the report of a run that returned: the TWAP run made num_chunks
\* attempts, the grid run started its last poll inside the window
ReportOnReturn ==
    /\ tpc = "done" => Len(execution_results.chunks) = twap_args.num_chunks
    /\ gpc = "done" => polls = 0 \/ (polls - 1) * PollInterval < MonitoringDuration

\* a strategy call is over: it returned its report or raised
RunOver == gpc \in {"done", "raised"} \/ tpc \in {"done", "raised"}

\* C15: once its first unit was attempted a run never raises, whatever
\* venue request fails later, and it always comes to an end by returning
\* its report: the TWAP run after num_chunks attempts, the grid run when the
\* monitoring is over.
C15_RunsAlwaysReturn ==
    /\ [][RaisesOnlyBeforeFirstUnit]_vars
    /\ []ReportOnReturn
    /\ <>RunOver

\* C15 happens: a grid run returned although the placement of the first
\* level's sell failed and, after the fill of its buy was handled, a
\* request of the monitoring failed
C15_Witness ==
    /\ gpc = "done"
    /\ monitor_error
    /\ Len(executed_orders) > 0
    /\ current_price < grid_orders[1].sell_price
    /\ InitialOrders(1, "SELL") = {}

---------------------------------------------------------------------------
(* Properties of the TWAP report and of the limit price *)

\* the chunks recorded as executed
ExecutedChunks == {k \in 1..Len(chunks) : chunks[k].status = "executed"}

\* what the venue executed for the orders of chunks ks: quantity and cost
RECURSIVE VenueQuantity(_)
VenueQuantity(ks) ==
    IF ks = {} THEN 0
    ELSE LET k == CHOOSE x \in ks : TRUE
         IN  venue[chunks[k].order_id].executedQty + VenueQuantity(ks \ {k})

RECURSIVE VenueCost(_)
VenueCost(ks) ==
    IF ks = {} THEN 0
    ELSE LET k == CHOOSE x \in ks : TRUE
             o == venue[chunks[k].order_id]
         IN  o.executedQty * o.avgPrice + VenueCost(ks \ {k})

\* C16: total_executed and total_cost are the sums, over the chunks recorded
\* as executed, of the quantity and of the cost the venue reported for their
\* orders; a failed, cancelled or pending chunk adds nothing; and on return
\* average_price is total_cost / total_executed, or 0 if nothing was
\* executed.
C16_AverageOverExecutedChunks ==
    /\ execution_results.total_executed = VenueQuantity(ExecutedChunks)
    /\ execution_results.total_cost = VenueCost(ExecutedChunks)
    /\ \A k \in 1..Len(chunks) :
          chunks[k].status \in {"failed", "cancelled", "pending"} =>
              chunks[k].executed_quantity = 0 /\ chunks[k].cost = 0
    /\ tpc = "done" =>
          execution_results.average_price =
              IF execution_results.total_executed > 0
              THEN execution_results.total_cost \div execution_results.total_executed
              ELSE 0

\* C16 happens: a run of three limit chunks is over; the first and the third
\* were executed at different prices, the second was cancelled, and the
\* average lies between the two prices
C16_Witness ==
    /\ tpc = "done"
    /\ Len(chunks) = 3
    /\ chunks[1].status = "executed"
    /\ chunks[2].status = "cancelled"
    /\ chunks[3].status = "executed"
    /\ chunks[1].price < chunks[3].price
    /\ execution_results.average_price = (chunks[1].price + chunks[3].price) \div 2

\* the limit price the claim gives an order of side BUY or SELL
OrientedPrice(sent_side, price) ==
    IF sent_side = "BUY"
    THEN (price * (1000 + LimitPriceOffset)) \div 1000
    ELSE (price * (1000 - LimitPriceOffset)) \div 1000

\* C17: in limit mode, for every side validate_side accepts, the order of a
\* chunk goes out at current_price * (1 + limit_price_offset) if it is sent
\* as a BUY and at current_price * (1 - limit_price_offset) if it is sent as
\* a SELL.
C17_LimitPriceOrientedBySentSide ==
    (tpc = "wait" /\ validate_side(twap_args.side)) =>
        LET o == venue[chunk_order_id]
        IN  /\ o.kind = "LIMIT"
            /\ o.side = Upper(twap_args.side)
            /\ o.price = OrientedPrice(o.side, ticker_price)

---------------------------------------------------------------------------
(* Properties of the grid planners *)

\* the sum of the investment shares of the levels of a ladder
RECURSIVE InvestmentSum(_)
InvestmentSum(ladder) ==
    IF ladder = <<>> THEN 0
    ELSE ladder[1].investment + InvestmentSum(Tail(ladder))

\* C18: the investment shares of the levels of a ladder create_grid_strategy
\* returns (arithmetic or geometric, grid_number >= 2) add up to
\* total_investment.
C18_InvestmentSharesSumToTotal ==
    (ppc = "returned" /\ plan_args.planner = "grid") =>
        InvestmentSum(grid_strategy) = plan_args.total_investment

\* every level buys below its sell price, and buy and sell prices grow
\* strictly with the level
LadderOrdered(ladder) ==
    /\ \A i \in 1..Len(ladder) : ladder[i].buy_price < ladder[i].sell_price
    /\ \A i \in 1..(Len(ladder) - 1) :
          /\ ladder[i].buy_price < ladder[i + 1].buy_price
          /\ ladder[i].sell_price < ladder[i + 1].sell_price

\* C19: every ladder a planner returns (create_grid_strategy in either
\* mode, create_martingale_grid) has buy_price < sell_price on every level
\* and level prices that increase strictly with the level index.
C19_LadderPricesOrdered == ppc = "returned" => LadderOrdered(grid_strategy)

\* the ranges the claim gives the planners' arguments
InClaimedRange(a) ==
    IF a.planner = "grid"
    THEN a.upper_price > a.lower_price /\ a.grid_number >= 2 /\ a.total_investment > 0
    ELSE a.grid_number >= 2 /\ a.total_investment > 0 /\ a.multiplier > 1

\* C20: a planner called with an argument out of range raises its
\* ValidationError and returns no ladder: create_grid_strategy on
\* upper_price <= lower_price, grid_number < 2 or total_investment <= 0,
\* create_martingale_grid on grid_number < 2, total_investment <= 0 or
\* multiplier <= 1.
C20_OutOfRangeRejected ==
    /\ ppc = "returned" => InClaimedRange(plan_args)
    /\ ppc = "raised" => grid_strategy = <<>>

---------------------------------------------------------------------------
(* Properties of the grid run: what the monitoring leaves alone *)

\* the orders of the run that are CANCELED at the venue
CancelledIds == {id \in OrderIds : venue[id].status = "CANCELED"}

\* C22: the grid rebalancer never cancels an order: every order of the run
\* that is CANCELED at the venue was cancelled from outside the run, and
\* the step that ends the run (the window expiring, or the monitoring
\* stopping early on an error) leaves every order as it was, the open ones
\* open.
C22_RunNeverCancels ==
    /\ [](Cardinality(CancelledIds) = cancels)
    /\ [][(gpc \in {"monitor", "scan"} /\ gpc' = "done") => (venue' = venue)]_vars

\* C22 happens: the window of a monitored run expired after a poll, with an
\* order of the run still open at the venue
C22_Witness ==
    /\ gpc = "done"
    /\ auto_rebalance
    /\ polls >= 1
    /\ ~monitor_error
    /\ OpenOrderIds # {}

\* the placed order the scan is looking at is closed and not FILLED
ScanSeesClosedUnfilled ==
    /\ gpc = "scan"
    /\ scan_idx <= Len(placed_orders)
    /\ placed_orders[scan_idx].order_id \notin open_orders
    /\ venue[placed_orders[scan_idx].order_id].status # "FILLED"

\* C28: whatever the monitoring does on a placed order that is no longer
\* open and is not FILLED, it submits no order and leaves total_profit and
\* executed_orders as they were, on every poll that sees the order.
C28_ClosedUnfilledIgnored ==
    [][ScanSeesClosedUnfilled =>
          /\ venue' = venue
          /\ total_profit' = total_profit
          /\ executed_orders' = executed_orders]_vars

\* C28 happens: in its second poll or later the scan has gone past a placed
\* order that is CANCELED at the venue, and nothing was sent for it
C28_Witness ==
    /\ gpc = "scan"
    /\ polls >= 2
    /\ \E k \in 1..(scan_idx - 1) :
          /\ k <= Len(placed_orders)
          /\ placed_orders[k].order_id \notin open_orders
          /\ venue[placed_orders[k].order_id].status = "CANCELED"
          /\ \A o \in OrderIds : venue[o].trigger # placed_orders[k].order_id

---------------------------------------------------------------------------
(* Properties of the TWAP run: accepted inputs, and the venue's fills *)

\* a positive total quantity with at least one chunk, a positive duration
\* and a supported symbol and side
PositiveTwapInput(a) ==
    /\ validate_symbol(a.symbol)
    /\ validate_side(a.side)
    /\ validate_quantity(a.total_quantity)
    /\ a.duration_seconds > 0
    /\ a.num_chunks >= 1

\* C25: a TWAP run with a positive total quantity is accepted also when the
\* quantity is smaller than the chunk count, as in the documented example
\* (0.01 over 3600 s in 10 chunks): its validation does not raise.
C25_SmallQuantityAccepted ==
    (/\ PositiveTwapInput(twap_args)
     /\ twap_args.total_quantity < twap_args.num_chunks * QtyScale)
        => tpc # "raised"

\* what the venue filled of the orders ids
RECURSIVE FilledQuantity(_)
FilledQuantity(ids) ==
    IF ids = {} THEN 0
    ELSE LET id == CHOOSE x \in ids : TRUE
         IN  venue[id].executedQty + FilledQuantity(ids \ {id})

\* C27: when a TWAP run returns, total_executed is the quantity the venue
\* filled over all the chunk orders of the run, and the order of a chunk
\* recorded as cancelled, pending or failed has nothing filled.
C27_TotalExecutedIsVenueFilled ==
    tpc = "done" =>
        /\ execution_results.total_executed = FilledQuantity(OrderIds)
        /\ \A k \in 1..Len(chunks) :
              (chunks[k].status \in {"cancelled", "pending"} /\ chunks[k].order_id # 0) =>
                  venue[chunks[k].order_id].executedQty = 0

---------------------------------------------------------------------------
(* Properties of the validation and of the OCO order *)

EachValid(a) ==
    /\ upper(a.symbol) \in SupportedSymbols
    /\ a.side \in {"BUY", "SELL", "buy", "sell"}
    /\ a.quantity > 0 /\ a.quantity <= MaxValue * QtyScale
    /\ \A p \in {a.price, a.stop_price, a.stop_limit_price} : p > 0 /\ p <= MaxValue
    /\ upper(a.stop_limit_time_in_force) \in TimeInForce

\* C23: a place_oco_order call whose parameters are each valid makes
\* exactly one request, a place_oco_order request that carries price,
\* stopPrice and stopLimitPrice of the call together, never a place_order
\* request; when the venue answers, the call returns that answer unchanged.
C23_OneOcoRequest ==
    /\ \A k \in 1..Len(oco_requests) : oco_requests[k].call = "place_oco_order"
    /\ venue = <<>>
    /\ (opc \in {"returned", "raised"} /\ EachValid(oco_args)) =>
          /\ Len(oco_requests) = 1
          /\ oco_requests[1].params.price = oco_args.price
          /\ oco_requests[1].params.stopPrice = oco_args.stop_price
          /\ oco_requests[1].params.stopLimitPrice = oco_args.stop_limit_price
    /\ opc = "returned" =>
          /\ EachValid(oco_args)
          /\ oco_requests[1].ok
          /\ oco_response = oco_requests[1].answer

\* C23 happens: a SELL OCO given in lower-case spellings was answered by
\* the venue and the answer returned
C23_Witness ==
    /\ opc = "returned"
    /\ oco_args.side = "SELL"
    /\ oco_args.stop_limit_time_in_force = "gtc"
    /\ oco_response \in OcoResponses

\* the prices of a BUY OCO are in the documented order
BuyPricesOrdered(a) ==
    a.stop_limit_price < a.stop_price /\ a.stop_price < a.price

\* C24: place_oco_order never refuses a call for the relative order of its
\* prices: it raises without a request only if a parameter is invalid by
\* itself, and a BUY OCO whose three prices are each valid but not in the
\* order stop_limit_price < stop_price < price is sent to the venue with
\* the three prices as given.
C24_OrderOfPricesNotChecked ==
    /\ (opc = "raised" /\ oco_requests = <<>>) => ~EachValid(oco_args)
    /\ (/\ opc \in {"returned", "raised"}
        /\ EachValid(oco_args)
        /\ Upper(oco_args.side) = "BUY"
        /\ ~BuyPricesOrdered(oco_args)) =>
          /\ Len(oco_requests) = 1
          /\ oco_requests[1].params.price = oco_args.price
          /\ oco_requests[1].params.stopPrice = oco_args.stop_price
          /\ oco_requests[1].params.stopLimitPrice = oco_args.stop_limit_price

\* C24 happens: a BUY OCO with the take-profit price below the stop price
\* and the stop-limit price above both was sent and answered
C24_Witness ==
    /\ opc = "returned"
    /\ oco_args.side = "BUY"
    /\ oco_args.price = 90
    /\ oco_args.stop_price = 100
    /\ oco_args.stop_limit_price = 110
    /\ Len(oco_requests) = 1

---------------------------------------------------------------------------
(* Properties of the volume-weighted TWAP *)

\* C26: in a run of execute_volume_weighted_twap the order of chunk i is
\* submitted with the quantity total_quantity * volume_profile[i].
C26_ChunksWeightedByProfile ==
    volume_profile # <<>> =>
        \A o \in OrderIds :
            venue[o].quantity =
                (twap_args.total_quantity * volume_profile[venue[o].level])
                    \div ProfileUnit

---------------------------------------------------------------------------
(* Properties of the DCA call and of the bracket orders *)

\* C29: in execute_dca_strategy any two consecutive attempts are
\* interval_seconds apart, also when the earlier of them failed, and a
\* failed attempt does not stop the ones after it: a call that returns has
\* made num_orders attempts.
C29_AttemptsSpacedByInterval ==
    /\ \A k \in 1..(Len(dca_log) - 1) :
          dca_log[k + 1].time - dca_log[k].time = dca_args.interval_seconds
    /\ dpc = "returned" => Len(dca_log) = dca_args.num_orders

\* the orders of the bracket that are open at the venue
LiveBracketOrders ==
    {id \in {orders.entry, orders.take_profit, orders.stop_loss} \ {0} :
        venue[id].status = "NEW"}

\* C30: when place_bracket_orders raises on the take-profit or on the
\* stop-loss placement, no order the call placed before is left open at the
\* venue.
C30_BracketAllOrNothing ==
    (bpc = "raised" /\ orders.entry # 0) => LiveBracketOrders = {}

===========================================================================
